---- MODULE Spec2Model ----
(***************************************************************************)
(* CONCORD consistency engine: the fact store (KnowledgeGraph), the        *)
(* causality Propagator, the ConstraintEngine, the EntityTracker and the   *)
(* score computation of the consistency route.                             *)
(***************************************************************************)
EXTENDS Integers, Sequences, FiniteSets, TLC

(***************************************************************************)
(* Bounds of the model.                                                    *)
(***************************************************************************)
\* number of fact ids that uuid4 hands out in one behaviour
MaxFacts == 3
\* longest dependency list passed to add_fact
MaxDeps == 2
\* Propagator calls traced iteration by iteration in one behaviour
MaxCalls == 1
\* longest fact batch passed to check_conflicts
MaxNewFacts == 2
\* longest fact batch passed to validate
MaxBatch == 3
\* most issues in the batch a report is built from
MaxIssues == 11
\* most facts / entities counted as checked
MaxChecked == 1
\* entities known to the tracker's callers
MaxEntities == 2
\* states recorded by update_state, over all entities
MaxUpdates == 2
\* highest narrative position passed to update_state
MaxPosition == 1
\* most sentences of a checked text
MaxSentences == 2
\* check_behavior calls in a behaviour
MaxChecks == 1
\* facts added in a behaviour with snapshots
MaxSnapFacts == 2

FactIds == 1..MaxFacts

\* values of Fact.validity_status
VALID == "valid"
DIRTY == "dirty"
INVALID == "invalid"

Subjects == {"Alice", "Bob"}
Predicates == {"age", "occupation"}
Objects == {"25", "30"}

\* ConsistencyIssue.confidence in hundredths: 0.9 for a store conflict
ConflictConfidence == 90
\* 0.95 for a contradiction inside a batch
ImplicitConfidence == 95

\* no operation has run yet
NoOp == [op |-> "none", arg |-> 0, ret |-> {}, writes |-> <<>>]

VARIABLES
    facts,            \* KnowledgeGraph._facts: fact id -> Fact
    fact_keys,        \* insertion order of the keys of _facts
    fact_index,       \* KnowledgeGraph._fact_index: subject -> list of fact ids
    dependent_index,  \* KnowledgeGraph._dependent_index: fact id -> list of dependents
    next_id,          \* the next identity uuid4 hands out
    last,             \* the last operation: its name, argument, result, status writes
    pc,               \* the Propagator call in progress, "idle" when none is
    trav,             \* the running call's seed, queue, visited ids and status writes
    calls,            \* Propagator calls begun so far
    new_facts,        \* the fact batch of the last check_conflicts / validate call
    issues,           \* the issues that call returned
    score_in,         \* check_consistency: issues per type, facts and entities checked
    report,           \* the ConsistencyReport built from score_in
    profiles,         \* EntityTracker._profiles: entity id -> profile
    checks,           \* number of check_behavior calls so far
    behavior,         \* the last check_behavior call: entities, text, issues
    entities,         \* KnowledgeGraph._entities, in dict order
    relationships,    \* KnowledgeGraph._relationships, in dict order
    snapshot,         \* the snapshot the caller holds, if any
    observed,         \* what the queries returned when it was taken
    mut,              \* a second caller inside add_fact or remove_fact
    constraints,      \* ConstraintEngine._constraints, in dict order
    rules,            \* ConstraintEngine._rules: str(id) -> compiled rule
    fixer,            \* NarrativeFixer._suggestions and its last get_auto_fixes call
    history,          \* SimulationEngine.history: the stack of snapshots
    current_step      \* SimulationEngine.current_step

kg_vars == <<facts, fact_keys, fact_index, dependent_index, next_id, last>>
trav_vars == <<pc, trav, calls>>

check_vars == <<new_facts, issues>>

score_vars == <<score_in, report>>

tracker_vars == <<profiles, checks, behavior>>

graph_vars == <<entities, relationships>>
snap_vars == <<snapshot, observed>>
conc_vars == <<mut>>
engine_vars == <<constraints, rules>>
fixer_vars == <<fixer>>
sim_vars == <<history, current_step>>

vars == <<kg_vars, trav_vars, check_vars, score_vars, tracker_vars, graph_vars, snap_vars,
          conc_vars, engine_vars, fixer_vars, sim_vars>>

store == <<facts, fact_keys, fact_index, dependent_index>>

(***************************************************************************)
(* Helpers on sequences and dicts.                                         *)
(***************************************************************************)
Range(s) == {s[i] : i \in DOMAIN s}

NoDup(s) == \A i, j \in DOMAIN s : i # j => s[i] # s[j]

\* dict.get(k, default)
DictGet(d, k, default) == IF k \in DOMAIN d THEN d[k] ELSE default

\* d[k] = v on a dict
DictPut(d, k, v) == [x \in DOMAIN d \cup {k} |-> IF x = k THEN v ELSE d[x]]

\* del d[k]
DictDel(d, k) == [x \in DOMAIN d \ {k} |-> d[x]]

EmptyDict == [x \in {} |-> 0]

\* dependency lists the callers pass: sorted sequences of fact ids, repeats allowed
RECURSIVE SortedSeqs(_)
SortedSeqs(n) ==
    IF n = 0 THEN {<<>>}
    ELSE LET shorter == SortedSeqs(n - 1)
         IN shorter \cup
            {Append(s, x) : s \in {t \in shorter : Len(t) = n - 1}, x \in FactIds}

DepLists == {s \in SortedSeqs(MaxDeps) : \A i \in 1..(Len(s) - 1) : s[i] <= s[i + 1]}

(***************************************************************************)
(* KnowledgeGraph queries.                                                 *)
(***************************************************************************)
Stored(f) == f \in DOMAIN facts

\* get_fact: the fact, or None (modelled as absence from the domain)
has_fact(fs, fact_id) == fact_id \in DOMAIN fs

\* get_dependents: the stored facts listed under fact_id in the reverse index
get_dependents_in(fs, dix, fact_id) ==
    SelectSeq(DictGet(dix, fact_id, <<>>), LAMBDA fid : fid \in DOMAIN fs)

get_dependents(fact_id) == get_dependents_in(facts, dependent_index, fact_id)

\* get_facts_by_subject
get_facts_by_subject_in(fs, fix, subject) ==
    SelectSeq(DictGet(fix, subject, <<>>), LAMBDA fid : fid \in DOMAIN fs)

get_facts_by_subject(subject) == get_facts_by_subject_in(facts, fact_index, subject)

\* get_facts (default limit 100, offset 0)
get_facts == [i \in DOMAIN fact_keys |-> facts[fact_keys[i]]]

(***************************************************************************)
(* KnowledgeGraph mutations.                                               *)
(***************************************************************************)
\* the Fact that add_fact builds
NewFact(subject, predicate, object_, dependencies) ==
    [subject |-> subject, predicate |-> predicate, object |-> object_,
     validity_status |-> VALID, dependencies |-> dependencies]

\* add_fact's loop over fact.dependencies: append fact_id under every dep_id
RECURSIVE IndexDependencies(_, _, _)
IndexDependencies(dix, dependencies, fact_id) ==
    IF dependencies = <<>> THEN dix
    ELSE LET dep_id == Head(dependencies)
         IN IndexDependencies(
                DictPut(dix, dep_id, Append(DictGet(dix, dep_id, <<>>), fact_id)),
                Tail(dependencies), fact_id)

\* a subject index that keeps one fact id per subject
IndexSubject_Replace(fix, subject, fact_id) == DictPut(fix, subject, <<fact_id>>)

\* add_fact's subject index update
IndexSubject(fix, subject, fact_id) ==
    DictPut(fix, subject, Append(DictGet(fix, subject, <<>>), fact_id))

\* remove_fact's subject index update
UnindexSubject(fix, subject, fact_id) ==
    IF subject \in DOMAIN fix
    THEN [fix EXCEPT ![subject] = SelectSeq(@, LAMBDA fid : fid # fact_id)]
    ELSE fix

\* a remove_fact that hands the dependents of the fact over to the facts
\* the fact is listed under
UnindexDependents_Splice(dix, fact_id) ==
    [k \in DOMAIN dix \ {fact_id} |->
        IF fact_id \in Range(dix[k]) THEN dix[k] \o DictGet(dix, fact_id, <<>>) ELSE dix[k]]

\* a remove_fact that leaves the reverse index entry of the fact in place
UnindexDependents_Keep(dix, fact_id) == dix

\* remove_fact's reverse index update
UnindexDependents(dix, fact_id) ==
    IF fact_id \in DOMAIN dix THEN DictDel(dix, fact_id) ELSE dix

Record(op, arg, ret, writes) ==
    last' = [op |-> op, arg |-> arg, ret |-> ret, writes |-> writes]

AddFact(subject, predicate, object_, dependencies) ==
    /\ next_id <= MaxFacts
    /\ LET fact_id == next_id
       IN /\ facts' = DictPut(facts, fact_id,
                              NewFact(subject, predicate, object_, dependencies))
          /\ fact_keys' = Append(fact_keys, fact_id)
          /\ fact_index' = IndexSubject(fact_index, subject, fact_id)
          /\ dependent_index' = IndexDependencies(dependent_index, dependencies, fact_id)
          /\ next_id' = next_id + 1

\* remove_fact's return value
remove_fact_result(fact_id) == fact_id \in DOMAIN facts

RemoveFact(fact_id) ==
    /\ IF fact_id \notin DOMAIN facts
       THEN UNCHANGED store
       ELSE /\ facts' = DictDel(facts, fact_id)
            /\ fact_keys' = SelectSeq(fact_keys, LAMBDA fid : fid # fact_id)
            /\ fact_index' = UnindexSubject(fact_index, facts[fact_id].subject, fact_id)
            /\ dependent_index' = UnindexDependents(dependent_index, fact_id)
    /\ UNCHANGED next_id

(***************************************************************************)
(* Propagator: breadth-first traversals over the reverse-dependency index. *)
(* A traversal state t holds the queue, the visited id set, the facts      *)
(* (whose validity the loop writes) and the sequence of status writes.     *)
(***************************************************************************)
Traversal(queue, fs) == [queue |-> queue, ids |-> {}, fs |-> fs, writes |-> <<>>]

\* InvalidateStep that enqueues the dependents of the seed only
InvalidateStep_SeedDependentsOnly(t) ==
    LET current_id == Head(t.queue)
        rest == Tail(t.queue)
    IN  IF current_id \in t.ids THEN [t EXCEPT !.queue = rest]
        ELSE IF ~has_fact(t.fs, current_id) THEN [t EXCEPT !.queue = rest]
        ELSE LET ids2 == t.ids \cup {current_id}
                 dependents == IF t.ids = {}
                               THEN get_dependents_in(t.fs, dependent_index, current_id)
                               ELSE <<>>
             IN [queue |-> rest \o SelectSeq(dependents, LAMBDA dep : dep \notin ids2),
                 ids |-> ids2,
                 fs |-> [t.fs EXCEPT ![current_id].validity_status = INVALID],
                 writes |-> Append(t.writes, current_id)]

\* InvalidateStep without the visited-set guard
InvalidateStep_NoVisitedGuard(t) ==
    LET current_id == Head(t.queue)
        rest == Tail(t.queue)
    IN  IF ~has_fact(t.fs, current_id) THEN [t EXCEPT !.queue = rest]
        ELSE [queue |-> rest \o get_dependents_in(t.fs, dependent_index, current_id),
              ids |-> t.ids \cup {current_id},
              fs |-> [t.fs EXCEPT ![current_id].validity_status = INVALID],
              writes |-> Append(t.writes, current_id)]

\* InvalidateStep that passes over a fact that is already invalid
InvalidateStep_SkipInvalid(t) ==
    LET current_id == Head(t.queue)
        rest == Tail(t.queue)
    IN  IF current_id \in t.ids THEN [t EXCEPT !.queue = rest]
        ELSE IF ~has_fact(t.fs, current_id) THEN [t EXCEPT !.queue = rest]
        ELSE IF t.fs[current_id].validity_status = INVALID THEN [t EXCEPT !.queue = rest]
        ELSE LET ids2 == t.ids \cup {current_id}
                 dependents == get_dependents_in(t.fs, dependent_index, current_id)
             IN [queue |-> rest \o SelectSeq(dependents, LAMBDA dep : dep \notin ids2),
                 ids |-> ids2,
                 fs |-> [t.fs EXCEPT ![current_id].validity_status = INVALID],
                 writes |-> Append(t.writes, current_id)]

\* one iteration of invalidate_fact's while loop
InvalidateStep(t) ==
    LET current_id == Head(t.queue)
        rest == Tail(t.queue)
    IN  IF current_id \in t.ids THEN [t EXCEPT !.queue = rest]
        ELSE IF ~has_fact(t.fs, current_id) THEN [t EXCEPT !.queue = rest]
        ELSE LET ids2 == t.ids \cup {current_id}
                 dependents == get_dependents_in(t.fs, dependent_index, current_id)
             IN [queue |-> rest \o SelectSeq(dependents, LAMBDA dep : dep \notin ids2),
                 ids |-> ids2,
                 fs |-> [t.fs EXCEPT ![current_id].validity_status = INVALID],
                 writes |-> Append(t.writes, current_id)]

\* PropagateStep that also empties the dependency list of the fact it marks
PropagateStep_DropDependencies(t) ==
    LET current_id == Head(t.queue)
        rest == Tail(t.queue)
    IN  IF current_id \in t.ids THEN [t EXCEPT !.queue = rest]
        ELSE IF ~has_fact(t.fs, current_id) THEN [t EXCEPT !.queue = rest]
        ELSE LET ids2 == t.ids \cup {current_id}
                 dependents == get_dependents_in(t.fs, dependent_index, current_id)
             IN [queue |-> rest \o SelectSeq(dependents, LAMBDA dep : dep \notin ids2),
                 ids |-> ids2,
                 fs |-> [t.fs EXCEPT ![current_id].validity_status = DIRTY,
                                     ![current_id].dependencies = <<>>],
                 writes |-> Append(t.writes, current_id)]

\* one iteration of propagate_change's while loop
PropagateStep(t) ==
    LET current_id == Head(t.queue)
        rest == Tail(t.queue)
    IN  IF current_id \in t.ids THEN [t EXCEPT !.queue = rest]
        ELSE IF ~has_fact(t.fs, current_id) THEN [t EXCEPT !.queue = rest]
        ELSE LET ids2 == t.ids \cup {current_id}
                 dependents == get_dependents_in(t.fs, dependent_index, current_id)
             IN [queue |-> rest \o SelectSeq(dependents, LAMBDA dep : dep \notin ids2),
                 ids |-> ids2,
                 fs |-> [t.fs EXCEPT ![current_id].validity_status = DIRTY],
                 writes |-> Append(t.writes, current_id)]

RECURSIVE InvalidateLoop(_)
InvalidateLoop(t) == IF t.queue = <<>> THEN t ELSE InvalidateLoop(InvalidateStep(t))

RECURSIVE PropagateLoop(_)
PropagateLoop(t) == IF t.queue = <<>> THEN t ELSE PropagateLoop(PropagateStep(t))

\* invalidate_fact: the queue starts with the seed
invalidate_fact(fact_id) == InvalidateLoop(Traversal(<<fact_id>>, facts))

\* propagate_change whose queue starts with the seed itself
propagate_change_FromSeed(fact_id) == PropagateLoop(Traversal(<<fact_id>>, facts))

\* propagate_change: the queue starts with the seed's dependents
propagate_change(fact_id) == PropagateLoop(Traversal(get_dependents(fact_id), facts))

InvalidateFact(fact_id) ==
    LET r == invalidate_fact(fact_id)
    IN  /\ facts' = r.fs
        /\ Record("invalidate_fact", fact_id, r.ids, r.writes)
        /\ UNCHANGED <<fact_keys, fact_index, dependent_index, next_id>>

PropagateChange(fact_id) ==
    LET r == propagate_change(fact_id)
    IN  /\ facts' = r.fs
        /\ Record("propagate_change", fact_id, r.ids, r.writes)
        /\ UNCHANGED <<fact_keys, fact_index, dependent_index, next_id>>

(***************************************************************************)
(* The scores of check_consistency.  A float score is written as           *)
(* 4 * hundredths, one more or one less when IEEE-754 double arithmetic    *)
(* leaves the result just above or just below the decimal value, so that   *)
(* comparisons between scores and with the level thresholds are the ones   *)
(* the floats give.                                                        *)
(***************************************************************************)
ConstraintTypes ==
    {"factual", "temporal", "causal", "spatial", "behavioral", "relational"}

Float(hundredths, rounding) == 4 * hundredths + rounding

\* rounding of 1.0 - (issue_count * 0.1): just below the decimal for 6 to 9
OverallRounding(issue_count) == IF issue_count \in 6..9 THEN -1 ELSE 0

\* rounding of 1.0 - (count * 0.15): just above the decimal for 6
CategoryRounding(count) == IF count = 6 THEN 1 ELSE 0

\* the magnitude in place of the clamp
Max0_Abs(x) == IF x < 0 THEN 0 - x ELSE x

\* max(0.0, x)
Max0(x) == IF x < 0 THEN 0 ELSE x

\* min(1.0, x)
Min1(x) == IF x > Float(100, 0) THEN Float(100, 0) ELSE x

\* len(issues)
IssueCount(by_type) ==
    by_type["factual"] + by_type["temporal"] + by_type["causal"]
        + by_type["spatial"] + by_type["behavioral"] + by_type["relational"]

overall_score(issue_count, total_checks) ==
    IF total_checks > 0
    THEN Max0(Float(100 - 10 * issue_count, OverallRounding(issue_count)))
    ELSE Float(100, 0)

level_of(score) ==
    IF score >= Float(90, 0) THEN "consistent"
    ELSE IF score >= Float(70, 0) THEN "warning"
    ELSE IF score >= Float(40, 0) THEN "inconsistent"
    ELSE "critical"

category_score(count) == Max0(Float(100 - 15 * count, CategoryRounding(count)))

\* the scores and level of the ConsistencyReport
build_report(by_type, facts_checked, entities_tracked) ==
    LET score == overall_score(IssueCount(by_type), facts_checked + entities_tracked)
    IN  [overall_score |-> Max0(Min1(score)),
         level |-> level_of(score),
         category |-> [t \in ConstraintTypes |-> category_score(by_type[t])]]

NoIssues == [t \in ConstraintTypes |-> 0]

(***************************************************************************)
(* The store with its propagator: facts of one subject, any dependencies.  *)
(***************************************************************************)
NoSnapshot == [taken |-> FALSE]

NoCall == [pc |-> "idle"]

\* a fixer that has generated nothing and was asked nothing
NoFixes == [suggestions |-> <<>>, calls |-> 0, issues |-> <<>>, auto_fixes |-> <<>>]

NoTraversal == [seed |-> 0, queue |-> <<>>, ids |-> {}, writes |-> <<>>]

Init ==
    /\ facts = EmptyDict
    /\ fact_keys = <<>>
    /\ fact_index = EmptyDict
    /\ dependent_index = EmptyDict
    /\ next_id = 1
    /\ last = NoOp
    /\ pc = "idle"
    /\ trav = NoTraversal
    /\ calls = 0
    /\ new_facts = <<>>
    /\ issues = <<>>
    /\ score_in = [by_type |-> NoIssues, facts |-> 0, entities |-> 0]
    /\ report = build_report(NoIssues, 0, 0)
    /\ profiles = EmptyDict
    /\ checks = 0
    /\ behavior = [entities |-> <<>>, text |-> <<>>, issues |-> <<>>]
    /\ entities = <<>>
    /\ relationships = <<>>
    /\ snapshot = NoSnapshot
    /\ observed = NoSnapshot
    /\ mut = NoCall
    /\ constraints = <<>>
    /\ rules = EmptyDict
    /\ fixer = NoFixes
    /\ history = <<>>
    /\ current_step = 0

Next ==
    \/ \E dependencies \in DepLists :
           /\ AddFact("Alice", "age", "25", dependencies)
           /\ Record("add_fact", next_id, {next_id}, <<>>)
           /\ UNCHANGED <<trav_vars, check_vars, score_vars, tracker_vars, conc_vars, engine_vars, fixer_vars, sim_vars, graph_vars, snap_vars>>
    \/ \E fact_id \in FactIds :
           /\ RemoveFact(fact_id)
           /\ Record("remove_fact", fact_id, {remove_fact_result(fact_id)}, <<>>)
           /\ UNCHANGED <<trav_vars, check_vars, score_vars, tracker_vars, conc_vars, engine_vars, fixer_vars, sim_vars, graph_vars, snap_vars>>
    \/ \E fact_id \in FactIds : InvalidateFact(fact_id) /\ UNCHANGED <<trav_vars, check_vars, score_vars, tracker_vars, conc_vars, engine_vars, fixer_vars, sim_vars, graph_vars, snap_vars>>
    \/ \E fact_id \in FactIds : PropagateChange(fact_id) /\ UNCHANGED <<trav_vars, check_vars, score_vars, tracker_vars, conc_vars, engine_vars, fixer_vars, sim_vars, graph_vars, snap_vars>>

Spec == Init /\ [][Next]_vars

(***************************************************************************)
(* The Propagator's loops one iteration at a time. The awaited store calls *)
(* never suspend, so no other operation runs between two iterations; each  *)
(* iteration writes the fact's status in place.                           *)
(***************************************************************************)
\* the running traversal with the store's facts
Running == [queue |-> trav.queue, ids |-> trav.ids, fs |-> facts, writes |-> trav.writes]

Suspend(seed, t) == [seed |-> seed, queue |-> t.queue, ids |-> t.ids, writes |-> t.writes]

BeginInvalidate(fact_id) ==
    /\ pc = "idle"
    /\ calls < MaxCalls
    /\ calls' = calls + 1
    /\ pc' = "invalidate_fact"
    /\ trav' = Suspend(fact_id, Traversal(<<fact_id>>, facts))
    /\ UNCHANGED <<kg_vars, check_vars, score_vars, tracker_vars, conc_vars, engine_vars, fixer_vars, sim_vars, graph_vars, snap_vars>>

BeginPropagate(fact_id) ==
    /\ pc = "idle"
    /\ calls < MaxCalls
    /\ calls' = calls + 1
    /\ pc' = "propagate_change"
    /\ trav' = Suspend(fact_id, Traversal(get_dependents(fact_id), facts))
    /\ UNCHANGED <<kg_vars, check_vars, score_vars, tracker_vars, conc_vars, engine_vars, fixer_vars, sim_vars, graph_vars, snap_vars>>

IterateInvalidate ==
    /\ pc = "invalidate_fact"
    /\ trav.queue # <<>>
    /\ LET t == InvalidateStep(Running)
       IN  /\ facts' = t.fs
           /\ trav' = Suspend(trav.seed, t)
    /\ UNCHANGED <<fact_keys, fact_index, dependent_index, next_id, last, pc, calls,
                   check_vars, score_vars, tracker_vars, conc_vars, engine_vars, fixer_vars, sim_vars, graph_vars, snap_vars>>

IteratePropagate ==
    /\ pc = "propagate_change"
    /\ trav.queue # <<>>
    /\ LET t == PropagateStep(Running)
       IN  /\ facts' = t.fs
           /\ trav' = Suspend(trav.seed, t)
    /\ UNCHANGED <<fact_keys, fact_index, dependent_index, next_id, last, pc, calls,
                   check_vars, score_vars, tracker_vars, conc_vars, engine_vars, fixer_vars, sim_vars, graph_vars, snap_vars>>

Return ==
    /\ pc # "idle"
    /\ trav.queue = <<>>
    /\ Record(pc, trav.seed, trav.ids, trav.writes)
    /\ pc' = "idle"
    /\ trav' = NoTraversal
    /\ UNCHANGED <<store, next_id, calls, check_vars, score_vars, tracker_vars, conc_vars, engine_vars, fixer_vars, sim_vars, graph_vars, snap_vars>>

Iterate == IterateInvalidate \/ IteratePropagate \/ Return

NextTraversal ==
    \/ \E dependencies \in DepLists :
           /\ pc = "idle"
           /\ AddFact("Alice", "age", "25", dependencies)
           /\ UNCHANGED <<last, trav_vars, check_vars, score_vars, tracker_vars, conc_vars, engine_vars, fixer_vars, sim_vars, graph_vars, snap_vars>>
    \/ \E fact_id \in FactIds :
           /\ pc = "idle"
           /\ Stored(fact_id)
           /\ RemoveFact(fact_id)
           /\ UNCHANGED <<last, trav_vars, check_vars, score_vars, tracker_vars, conc_vars, engine_vars, fixer_vars, sim_vars, graph_vars, snap_vars>>
    \/ \E fact_id \in FactIds : BeginInvalidate(fact_id)
    \/ \E fact_id \in FactIds : BeginPropagate(fact_id)
    \/ IterateInvalidate
    \/ IteratePropagate
    \/ Return

\* a call that has begun runs on: the loop has no suspension point
SpecTraversal == Init /\ [][NextTraversal]_vars /\ WF_vars(Iterate)

(***************************************************************************)
(* KnowledgeGraph.check_conflicts.  A batch is a list of Fact records; the *)
(* i-th fact of a batch carries the identity -i, which no stored fact has. *)
(***************************************************************************)
\* the (subject, predicate, object) values facts are built from
Triples == {t \in [subject : Subjects, predicate : Predicates, object : Objects] :
                t.subject = "Alice" \/ t.predicate = "age"}

RECURSIVE SeqsUpTo(_, _)
SeqsUpTo(S, n) ==
    IF n = 0 THEN {<<>>}
    ELSE LET shorter == SeqsUpTo(S, n - 1)
         IN shorter \cup {Append(q, x) : q \in {t \in shorter : Len(t) = n - 1}, x \in S}

\* the batches handed to check_conflicts
Batches(n) ==
    {[i \in DOMAIN q |-> [id |-> 0 - i, subject |-> q[i].subject,
                          predicate |-> q[i].predicate, object |-> q[i].object]] :
         q \in SeqsUpTo(Triples, n)}

ConflictIssue(existing_id, new_fact) ==
    [type |-> "factual", level |-> "inconsistent", confidence |-> ConflictConfidence,
     conflicting_facts |-> <<existing_id, new_fact.id>>]

\* the inner loop that stops at the first contradiction
RECURSIVE ConflictsWith_FirstOnly(_, _)
ConflictsWith_FirstOnly(new_fact, existing_ids) ==
    IF existing_ids = <<>> THEN <<>>
    ELSE LET existing == facts[Head(existing_ids)]
         IN IF existing.predicate = new_fact.predicate
               /\ existing.object # new_fact.object
            THEN <<ConflictIssue(Head(existing_ids), new_fact)>>
            ELSE ConflictsWith_FirstOnly(new_fact, Tail(existing_ids))

\* the inner loop, were it to pass over stored facts that are not valid
RECURSIVE ConflictsWith_ValidOnly(_, _)
ConflictsWith_ValidOnly(new_fact, existing_ids) ==
    IF existing_ids = <<>> THEN <<>>
    ELSE LET existing == facts[Head(existing_ids)]
             rest == ConflictsWith_ValidOnly(new_fact, Tail(existing_ids))
         IN IF existing.validity_status = VALID
               /\ existing.predicate = new_fact.predicate
               /\ existing.object # new_fact.object
            THEN <<ConflictIssue(Head(existing_ids), new_fact)>> \o rest
            ELSE rest

\* the inner loop of check_conflicts: one issue per existing fact of the
\* subject with the same predicate and another object
RECURSIVE ConflictsWith(_, _)
ConflictsWith(new_fact, existing_ids) ==
    IF existing_ids = <<>> THEN <<>>
    ELSE LET existing == facts[Head(existing_ids)]
             rest == ConflictsWith(new_fact, Tail(existing_ids))
         IN IF existing.predicate = new_fact.predicate
               /\ existing.object # new_fact.object
            THEN <<ConflictIssue(Head(existing_ids), new_fact)>> \o rest
            ELSE rest

\* the outer loop of check_conflicts
RECURSIVE check_conflicts(_)
check_conflicts(batch) ==
    IF batch = <<>> THEN <<>>
    ELSE ConflictsWith(Head(batch), get_facts_by_subject(Head(batch).subject))
         \o check_conflicts(Tail(batch))

CheckConflicts(batch) ==
    /\ new_facts' = batch
    /\ issues' = check_conflicts(batch)
    /\ last' = [op |-> "check_conflicts", arg |-> 0, ret |-> {}, writes |-> <<>>]
    /\ UNCHANGED <<store, next_id>>

NextConflicts ==
    \/ \E t \in Triples :
           /\ AddFact(t.subject, t.predicate, t.object, <<>>)
           /\ Record("add_fact", next_id, {next_id}, <<>>)
           /\ UNCHANGED <<trav_vars, check_vars, score_vars, tracker_vars, conc_vars, engine_vars, fixer_vars, sim_vars, graph_vars, snap_vars>>
    \/ \E fact_id \in FactIds :
           /\ Stored(fact_id)
           /\ RemoveFact(fact_id)
           /\ Record("remove_fact", fact_id, {TRUE}, <<>>)
           /\ UNCHANGED <<trav_vars, check_vars, score_vars, tracker_vars, conc_vars, engine_vars, fixer_vars, sim_vars, graph_vars, snap_vars>>
    \/ \E batch \in Batches(MaxNewFacts) :
           CheckConflicts(batch) /\ UNCHANGED <<trav_vars, score_vars, tracker_vars, conc_vars, engine_vars, fixer_vars, sim_vars, graph_vars, snap_vars>>

SpecConflicts == Init /\ [][NextConflicts]_vars

(***************************************************************************)
(* ConstraintEngine._check_implicit_constraints, the second pass of        *)
(* validate.                                                               *)
(***************************************************************************)
\* the distinct members of keys in order of first appearance: the key order
\* of a dict filled while iterating
RECURSIVE KeysInOrder(_, _)
KeysInOrder(keys, seen) ==
    IF keys = <<>> THEN <<>>
    ELSE IF Head(keys) \in seen THEN KeysInOrder(Tail(keys), seen)
    ELSE <<Head(keys)>> \o KeysInOrder(Tail(keys), seen \cup {Head(keys)})

\* the keys of fact_map
SubjectsOf(batch) == KeysInOrder([i \in DOMAIN batch |-> batch[i].subject], {})

\* the keys of fact_map[subject]
PredicatesOf(batch, subject) ==
    LET of_subject == SelectSeq(batch, LAMBDA f : f.subject = subject)
    IN  KeysInOrder([i \in DOMAIN of_subject |-> of_subject[i].predicate], {})

\* a grouping that ignores the predicate
Group_SubjectOnly(batch, subject, predicate) ==
    SelectSeq(batch, LAMBDA f : f.subject = subject)

\* fact_map[subject][predicate]: the batch's facts of that subject and predicate
Group(batch, subject, predicate) ==
    SelectSeq(batch, LAMBDA f : f.subject = subject /\ f.predicate = predicate)

ImplicitIssue(pred_facts) ==
    [type |-> "factual", level |-> "inconsistent", confidence |-> ImplicitConfidence,
     conflicting_facts |-> [i \in DOMAIN pred_facts |-> pred_facts[i].id]]

\* the body of the loop over one (subject, predicate) group
GroupIssues(pred_facts) ==
    IF Len(pred_facts) > 1
       /\ Cardinality({pred_facts[i].object : i \in DOMAIN pred_facts}) > 1
    THEN <<ImplicitIssue(pred_facts)>>
    ELSE <<>>

RECURSIVE PredicateLoop(_, _, _)
PredicateLoop(batch, subject, predicates) ==
    IF predicates = <<>> THEN <<>>
    ELSE GroupIssues(Group(batch, subject, Head(predicates)))
         \o PredicateLoop(batch, subject, Tail(predicates))

RECURSIVE SubjectLoop(_, _)
SubjectLoop(batch, subjects) ==
    IF subjects = <<>> THEN <<>>
    ELSE PredicateLoop(batch, Head(subjects), PredicatesOf(batch, Head(subjects)))
         \o SubjectLoop(batch, Tail(subjects))

check_implicit_constraints(batch) ==
    SubjectLoop(batch, SubjectsOf(batch))

(***************************************************************************)
(* ConstraintEngine with registered constraints.  A text (a rule, a fact's *)
(* object, an expected value) is the sequence of its tokens: a maximal run *)
(* of word characters, or one character that is not a word character.     *)
(* Two texts are the same string exactly when they are the same sequence.  *)
(***************************************************************************)
\* the characters outside \w that the texts are written with
Punctuation == {".", " ", "=", "!", ">", "<", "'"}

\* \w+
IsWord(token) == token \notin Punctuation

\* str.lstrip(chars)
RECURSIVE lstrip(_, _)
lstrip(text, chars) ==
    IF text # <<>> /\ Head(text) \in chars THEN lstrip(Tail(text), chars) ELSE text

\* str.rstrip(chars)
RECURSIVE rstrip(_, _)
rstrip(text, chars) ==
    IF text # <<>> /\ text[Len(text)] \in chars
    THEN rstrip(SubSeq(text, 1, Len(text) - 1), chars)
    ELSE text

\* str.strip(chars); strip() with no argument strips white space
strip(text, chars) == rstrip(lstrip(text, chars), chars)

WhiteSpace == {" "}
Quotes == {"'"}

\* the decimal numerals among the tokens and the number each one denotes
DecimalValue == ("10" :> 10) @@ ("18" :> 18) @@ ("20" :> 20)

\* float(text): a number for a numeral (white space around it allowed),
\* ValueError for any other text
float(text) ==
    LET t == strip(text, WhiteSpace)
    IN  IF Len(t) = 1 /\ t[1] \in DOMAIN DecimalValue
        THEN [ok |-> TRUE, value |-> DecimalValue[t[1]]]
        ELSE [ok |-> FALSE, value |-> 0]

\* the tokens that have an upper-case letter, in lower case
LowerCase == ("ABC" :> "abc") @@ ("Alice" :> "alice") @@ ("Bob" :> "bob")

\* str.lower()
lower(text) ==
    [i \in DOMAIN text |-> IF text[i] \in DOMAIN LowerCase THEN LowerCase[text[i]] ELSE text[i]]

\* the alternatives of the rule pattern's operator group, in the order the
\* pattern lists them: (==|!=|>|<|>=|<=)
Alternatives ==
    << <<"=", "=">>, <<"!", "=">>, <<">">>, <<"<">>, <<">", "=">>, <<"<", "=">> >>

StartsWith(text, prefix) ==
    Len(text) >= Len(prefix) /\ SubSeq(text, 1, Len(prefix)) = prefix

NoMatch == [ok |-> FALSE]

\* \s*(.+) on what follows the operator: the white space is skipped as far
\* as one character is left for the group
ValueGroup(after) ==
    IF lstrip(after, WhiteSpace) = <<>> THEN <<after[Len(after)]>>
    ELSE lstrip(after, WhiteSpace)

\* the operator group and the value group: the first alternative, in the
\* pattern's order, after which at least one character is left
RECURSIVE Alternation(_, _, _)
Alternation(rule, rest, i) ==
    IF i > Len(Alternatives) THEN NoMatch
    ELSE IF StartsWith(rest, Alternatives[i]) /\ Len(rest) > Len(Alternatives[i])
    THEN [ok |-> TRUE, subject |-> rule[3], attribute |-> rule[5],
          operator |-> Alternatives[i],
          expected_value |-> ValueGroup(SubSeq(rest, Len(Alternatives[i]) + 1, Len(rest)))]
    ELSE Alternation(rule, rest, i + 1)

\* re.match(r"entity\.(\w+)\.(\w+)\s*(==|!=|>|<|>=|<=)\s*(.+)", rule)
re_match(rule) ==
    IF /\ Len(rule) >= 5
       /\ rule[1] = "entity" /\ rule[2] = "."
       /\ IsWord(rule[3]) /\ rule[4] = "." /\ IsWord(rule[5])
    THEN Alternation(rule, lstrip(SubSeq(rule, 6, Len(rule)), WhiteSpace), 1)
    ELSE NoMatch

\* the comparison of two numbers by an operator
Compare(a, operator, b) ==
    CASE operator = <<">">> -> a > b
      [] operator = <<"<">> -> a < b
      [] operator = <<">", "=">> -> a >= b
      [] operator = <<"<", "=">> -> a <= b

\* _evaluate_operator: float() raising ValueError leads to the except branch
evaluate_operator(actual, operator, expected) ==
    IF operator = <<"=", "=">> THEN lower(actual) = lower(expected)
    ELSE IF operator = <<"!", "=">> THEN lower(actual) # lower(expected)
    ELSE IF operator \in {<<">">>, <<"<">>, <<">", "=">>, <<"<", "=">>}
    THEN IF float(actual).ok /\ float(expected).ok
         THEN Compare(float(actual).value, operator, float(expected).value)
         ELSE actual = expected
    ELSE TRUE

ConstraintConfidence == 85

ConstraintIssue(constraint) ==
    [type |-> constraint.type,
     level |-> IF constraint.is_hard THEN "inconsistent" ELSE "warning",
     confidence |-> ConstraintConfidence,
     conflicting_facts |-> <<>>]

\* facts_by_subject.get(subject, [])
facts_by_subject(batch, subject) == SelectSeq(batch, LAMBDA f : f.subject = subject)

\* a _check_constraint that reports a rule it cannot read as violated
check_constraint_Strict(constraint, batch) ==
    IF re_match(constraint.rule).ok THEN <<>> ELSE <<ConstraintIssue(constraint)>>

\* _check_constraint: None (no issue) when the rule does not match; else
\* the issue of the first fact of the subject with the attribute as its
\* predicate that does not satisfy the operator
check_constraint(constraint, batch) ==
    LET match == re_match(constraint.rule)
    IN  IF ~match.ok THEN <<>>
        ELSE LET expected_value == strip(strip(match.expected_value, WhiteSpace), Quotes)
                 unsatisfied ==
                     SelectSeq(facts_by_subject(batch, match.subject),
                               LAMBDA f : /\ f.predicate = match.attribute
                                          /\ ~evaluate_operator(strip(f.object, WhiteSpace),
                                                                match.operator, expected_value))
             IN  IF unsatisfied = <<>> THEN <<>> ELSE <<ConstraintIssue(constraint)>>

\* the loop over self._constraints.values()
RECURSIVE ConstraintLoop(_, _)
ConstraintLoop(registered, batch) ==
    IF registered = <<>> THEN <<>>
    ELSE check_constraint(Head(registered), batch) \o ConstraintLoop(Tail(registered), batch)

\* validate: the constraint loop, then the implicit pass
validate(batch) == ConstraintLoop(constraints, batch) \o check_implicit_constraints(batch)

Validate(batch) ==
    /\ new_facts' = batch
    /\ issues' = validate(batch)
    /\ last' = [op |-> "validate", arg |-> 0, ret |-> {}, writes |-> <<>>]
    /\ UNCHANGED <<store, next_id>>

NextValidate ==
    \E batch \in Batches(MaxBatch) : Validate(batch) /\ UNCHANGED <<trav_vars, score_vars, tracker_vars, conc_vars, engine_vars, fixer_vars, sim_vars, graph_vars, snap_vars>>

SpecValidate == Init /\ [][NextValidate]_vars

(***************************************************************************)
(* check_consistency as a sequence of requests, each building its report.  *)
(***************************************************************************)
\* a request with no issue found
NewRequest(facts_checked, entities_tracked) ==
    /\ score_in' = [by_type |-> NoIssues, facts |-> facts_checked,
                    entities |-> entities_tracked]
    /\ report' = build_report(NoIssues, facts_checked, entities_tracked)

\* the same request with one more issue of type t in the batch
OneMoreIssue(t) ==
    /\ IssueCount(score_in.by_type) < MaxIssues
    /\ LET by_type == [score_in.by_type EXCEPT ![t] = @ + 1]
       IN  /\ score_in' = [score_in EXCEPT !.by_type = by_type]
           /\ report' = build_report(by_type, score_in.facts, score_in.entities)

NextScore ==
    \/ \E fc \in 0..MaxChecked, ec \in 0..MaxChecked :
           NewRequest(fc, ec) /\ UNCHANGED <<kg_vars, trav_vars, check_vars, tracker_vars, conc_vars, engine_vars, fixer_vars, sim_vars, graph_vars, snap_vars>>
    \/ \E t \in ConstraintTypes :
           OneMoreIssue(t) /\ UNCHANGED <<kg_vars, trav_vars, check_vars, tracker_vars, conc_vars, engine_vars, fixer_vars, sim_vars, graph_vars, snap_vars>>

SpecScore == Init /\ [][NextScore]_vars

(***************************************************************************)
(* EntityTracker.  An entity is its id; entities have distinct names and   *)
(* no archetype attribute.  A profile holds the states update_state        *)
(* appended (its mention counters are read by no check).  A text is the    *)
(* list text.split(".") yields; a sentence is what the lexical tests read  *)
(* from it: the entities whose lower-cased name is a substring of it,      *)
(* whether one of the ten action words is, and whether both a positive and *)
(* a negative mood word are.  The code numbers sentences from 0, a         *)
(* sequence from 1.                                                        *)
(***************************************************************************)
EntityIds == 1..MaxEntities

Locations == {"none", "paris", "tokyo"}

\* the states update_state is called with: a dead state carries no location
EntityStates ==
    {st \in [position : 0..MaxPosition, location : Locations, alive : BOOLEAN] :
        ~st.alive => st.location = "none"}

SentenceKinds == [mentions : SUBSET EntityIds, action : BOOLEAN, mixed_moods : BOOLEAN]

\* mixed moods are drawn only with one sentence shape
Sentences ==
    {sn \in SentenceKinds : sn.mixed_moods => (sn.mentions = {1} /\ sn.action)}

Texts == SeqsUpTo(Sentences, MaxSentences) \ {<<>>}

EntityLists == SeqsUpTo(EntityIds, MaxEntities)

MoodConfidence == 60
TeleportConfidence == 70
ResurrectionConfidence == 90

RECURSIVE StatesRecorded(_)
StatesRecorded(ids) ==
    IF ids = {} THEN 0
    ELSE LET e == CHOOSE x \in ids : TRUE
         IN  Len(profiles[e].states) + StatesRecorded(ids \ {e})

\* track_entity on a profile map
track_entity(ps, entity) ==
    IF entity \notin DOMAIN ps THEN DictPut(ps, entity, [states |-> <<>>]) ELSE ps

TrackEntity(entity) ==
    /\ profiles' = track_entity(profiles, entity)
    /\ UNCHANGED <<checks, behavior>>

UpdateState(entity_id, st) ==
    /\ StatesRecorded(DOMAIN profiles) < MaxUpdates
    /\ profiles' = IF entity_id \notin DOMAIN profiles
                   THEN profiles
                   ELSE [profiles EXCEPT ![entity_id].states = Append(@, st)]
    /\ UNCHANGED <<checks, behavior>>

RECURSIVE TrackAll(_, _)
TrackAll(ps, entity_list) ==
    IF entity_list = <<>> THEN ps
    ELSE TrackAll(track_entity(ps, Head(entity_list)), Tail(entity_list))

BehaviorIssue(type, level, confidence, entity, evidence) ==
    [type |-> type, level |-> level, confidence |-> confidence,
     entity |-> entity, evidence |-> evidence]

\* one warning per sentence that mentions the entity with mixed moods
RECURSIVE check_entity_behavior(_, _, _)
check_entity_behavior(entity, text, i) ==
    IF i > Len(text) THEN <<>>
    ELSE (IF entity \in text[i].mentions /\ text[i].mixed_moods
          THEN <<BehaviorIssue("behavioral", "warning", MoodConfidence, entity, <<i - 1>>)>>
          ELSE <<>>)
         \o check_entity_behavior(entity, text, i + 1)

\* the sentences the inner loop of _check_alive_status returns at
ActionAfter(entity, text, death_position) ==
    {i \in DOMAIN text : /\ i - 1 > death_position
                         /\ entity \in text[i].mentions
                         /\ text[i].action}

Least(S) == CHOOSE x \in S : \A y \in S : x <= y

\* _check_alive_status: the first dead state with an action after it
RECURSIVE check_alive_status(_, _, _)
check_alive_status(entity, states, text) ==
    IF states = <<>> THEN <<>>
    ELSE LET state == Head(states)
             hits == ActionAfter(entity, text, state.position)
         IN  IF ~state.alive /\ hits # {}
             THEN <<BehaviorIssue("behavioral", "critical", ResurrectionConfidence,
                                  entity, <<state.position, Least(hits) - 1>>)>>
             ELSE check_alive_status(entity, Tail(states), text)

FarApart(prev_loc, curr_loc) == {prev_loc, curr_loc} = {"paris", "tokyo"}

\* _check_location_consistency: the first far jump between located states
check_location_consistency(entity, states) ==
    LET HasLocation(st) == st.location # "none"
        location_states == SelectSeq(states, HasLocation)
        jumps == {i \in 2..Len(location_states) :
                     FarApart(location_states[i - 1].location, location_states[i].location)}
    IN  IF jumps = {} THEN <<>>
        ELSE <<BehaviorIssue("spatial", "warning", TeleportConfidence, entity,
                             <<location_states[Least(jumps) - 1].position,
                               location_states[Least(jumps)].position>>)>>

\* the body of check_behavior's second loop
RECURSIVE EntityLoop(_, _, _)
EntityLoop(ps, entity_list, text) ==
    IF entity_list = <<>> THEN <<>>
    ELSE LET entity == Head(entity_list)
         IN  check_entity_behavior(entity, text, 1)
                 \o check_alive_status(entity, ps[entity].states, text)
                 \o check_location_consistency(entity, ps[entity].states)
                 \o EntityLoop(ps, Tail(entity_list), text)

check_behavior(ps, entity_list, text) ==
    EntityLoop(TrackAll(ps, entity_list), entity_list, text)

CheckBehavior(entity_list, text) ==
    /\ checks < MaxChecks
    /\ checks' = checks + 1
    /\ profiles' = TrackAll(profiles, entity_list)
    /\ behavior' = [entities |-> entity_list, text |-> text,
                    issues |-> check_behavior(profiles, entity_list, text)]

NextTracker ==
    \/ \E entity \in EntityIds :
           TrackEntity(entity) /\ UNCHANGED <<kg_vars, trav_vars, check_vars, score_vars, graph_vars, snap_vars, conc_vars, engine_vars, fixer_vars, sim_vars>>
    \/ \E entity_id \in EntityIds, st \in EntityStates :
           UpdateState(entity_id, st) /\ UNCHANGED <<kg_vars, trav_vars, check_vars, score_vars, graph_vars, snap_vars, conc_vars, engine_vars, fixer_vars, sim_vars>>
    \/ \E entity_list \in EntityLists, text \in Texts :
           CheckBehavior(entity_list, text)
               /\ UNCHANGED <<kg_vars, trav_vars, check_vars, score_vars, graph_vars, snap_vars, conc_vars, engine_vars, fixer_vars, sim_vars>>

SpecTracker == Init /\ [][NextTracker]_vars

(***************************************************************************)
(* KnowledgeGraph entities, relationships, clear and snapshots.  A dict    *)
(* keyed by id is the sequence of its values in insertion order: storing   *)
(* under a key the dict holds replaces the value in place.                 *)
(***************************************************************************)
DefaultLimit == 100

\* a put that adds an entry whatever the dict holds
PutById_Append(d, obj) == Append(d, obj)

\* d[obj.id] = obj
PutById(d, obj) ==
    IF \E i \in DOMAIN d : d[i].id = obj.id
    THEN [i \in DOMAIN d |-> IF d[i].id = obj.id THEN obj ELSE d[i]]
    ELSE Append(d, obj)

\* get_entities (no type filter, default limit)
get_entities ==
    SubSeq(entities, 1, IF Len(entities) < DefaultLimit THEN Len(entities) ELSE DefaultLimit)

AddEntity(entity) ==
    /\ entities' = PutById(entities, entity)
    /\ UNCHANGED <<store, next_id, relationships, snap_vars>>

AddRelationship(relationship) ==
    /\ relationships' = PutById(relationships, relationship)
    /\ UNCHANGED <<store, next_id, entities, snap_vars>>

Clear ==
    /\ entities' = <<>>
    /\ relationships' = <<>>
    /\ facts' = EmptyDict
    /\ fact_keys' = <<>>
    /\ fact_index' = EmptyDict
    /\ dependent_index' = EmptyDict
    /\ UNCHANGED <<next_id, snap_vars>>

\* a copy that is the object itself
deepcopy_Same(obj) == [obj |-> obj, shared |-> TRUE]

\* copy.deepcopy(obj): an equal object that shares no part with obj, so that
\* no write through the one is seen through the other
deepcopy(obj) == [obj |-> obj, shared |-> FALSE]

\* the dict create_snapshot returns: deep copies of the five maps; shared
\* tells whether a map of the dict is a map of the store
create_snapshot ==
    [taken |-> TRUE,
     entities |-> deepcopy(entities).obj,
     relationships |-> deepcopy(relationships).obj,
     facts |-> deepcopy(facts).obj,
     fact_keys |-> deepcopy(fact_keys).obj,
     fact_index |-> deepcopy(fact_index).obj,
     dependent_index |-> deepcopy(dependent_index).obj,
     shared |-> \/ deepcopy(entities).shared \/ deepcopy(relationships).shared
                \/ deepcopy(facts).shared \/ deepcopy(fact_index).shared
                \/ deepcopy(dependent_index).shared]

\* what the store's queries return
Observe ==
    [taken |-> TRUE,
     get_facts |-> [i \in DOMAIN fact_keys |-> <<fact_keys[i], facts[fact_keys[i]]>>],
     get_entities |-> get_entities,
     get_facts_by_subject |-> [subject \in Subjects |-> get_facts_by_subject(subject)],
     get_dependents |-> [fact_id \in FactIds |-> get_dependents(fact_id)],
     validity_status |-> [fact_id \in DOMAIN facts |-> facts[fact_id].validity_status]]

CreateSnapshot ==
    /\ snapshot' = create_snapshot
    /\ observed' = Observe
    /\ UNCHANGED <<store, next_id, graph_vars>>

\* a restore that leaves the reverse-dependency index as it is
restore_snapshot_FourMaps(s) ==
    [s EXCEPT !.dependent_index = dependent_index]

\* the five maps restore_snapshot assigns: deep copies of the snapshot's
restore_snapshot(s) ==
    [taken |-> TRUE,
     entities |-> deepcopy(s.entities).obj,
     relationships |-> deepcopy(s.relationships).obj,
     facts |-> deepcopy(s.facts).obj,
     fact_keys |-> deepcopy(s.fact_keys).obj,
     fact_index |-> deepcopy(s.fact_index).obj,
     dependent_index |-> deepcopy(s.dependent_index).obj,
     shared |-> \/ deepcopy(s.entities).shared \/ deepcopy(s.relationships).shared
                \/ deepcopy(s.facts).shared \/ deepcopy(s.fact_index).shared
                \/ deepcopy(s.dependent_index).shared]

RestoreSnapshot ==
    /\ snapshot.taken
    /\ LET s == restore_snapshot(snapshot)
       IN  /\ entities' = s.entities
           /\ relationships' = s.relationships
           /\ facts' = s.facts
           /\ fact_keys' = s.fact_keys
           /\ fact_index' = s.fact_index
           /\ dependent_index' = s.dependent_index
           /\ snapshot' = [snapshot EXCEPT !.shared = s.shared]
    /\ UNCHANGED <<next_id, observed>>

SnapDeps == {d \in DepLists : Len(d) <= 1 /\ \A i \in DOMAIN d : d[i] = 1}

SnapEntities == [id : {1}, name : Subjects]

SnapRelationships == [id : {1}, source_entity_id : {1}, target_entity_id : {1, 2}]

Touch(op) == Record(op, 0, {}, <<>>)

NextSnapshot ==
    \/ \E subject \in Subjects, dependencies \in SnapDeps :
           /\ next_id <= MaxSnapFacts
           /\ AddFact(subject, "age", "25", dependencies)
           /\ Touch("add_fact")
           /\ UNCHANGED <<trav_vars, check_vars, score_vars, tracker_vars, conc_vars, engine_vars, fixer_vars, sim_vars, graph_vars, snap_vars>>
    \/ \E fact_id \in 1..MaxSnapFacts :
           /\ RemoveFact(fact_id)
           /\ Touch("remove_fact")
           /\ UNCHANGED <<trav_vars, check_vars, score_vars, tracker_vars, conc_vars, engine_vars, fixer_vars, sim_vars, graph_vars, snap_vars>>
    \/ \E fact_id \in 1..MaxSnapFacts :
           /\ facts' = invalidate_fact(fact_id).fs
           /\ Touch("invalidate_fact")
           /\ UNCHANGED <<fact_keys, fact_index, dependent_index, next_id, trav_vars,
                          check_vars, score_vars, tracker_vars, conc_vars, engine_vars, fixer_vars, sim_vars, graph_vars, snap_vars>>
    \/ \E fact_id \in 1..MaxSnapFacts :
           /\ facts' = propagate_change(fact_id).fs
           /\ Touch("propagate_change")
           /\ UNCHANGED <<fact_keys, fact_index, dependent_index, next_id, trav_vars,
                          check_vars, score_vars, tracker_vars, conc_vars, engine_vars, fixer_vars, sim_vars, graph_vars, snap_vars>>
    \/ \E entity \in SnapEntities :
           /\ AddEntity(entity)
           /\ Touch("add_entity")
           /\ UNCHANGED <<trav_vars, check_vars, score_vars, tracker_vars, conc_vars, engine_vars, fixer_vars, sim_vars>>
    \/ \E relationship \in SnapRelationships :
           /\ AddRelationship(relationship)
           /\ Touch("add_relationship")
           /\ UNCHANGED <<trav_vars, check_vars, score_vars, tracker_vars, conc_vars, engine_vars, fixer_vars, sim_vars>>
    \/ Clear /\ Touch("clear")
             /\ UNCHANGED <<trav_vars, check_vars, score_vars, tracker_vars, conc_vars, engine_vars, fixer_vars, sim_vars>>
    \/ CreateSnapshot /\ Touch("create_snapshot")
             /\ UNCHANGED <<trav_vars, check_vars, score_vars, tracker_vars, conc_vars, engine_vars, fixer_vars, sim_vars>>
    \/ RestoreSnapshot /\ Touch("restore_snapshot")
             /\ UNCHANGED <<trav_vars, check_vars, score_vars, tracker_vars, conc_vars, engine_vars, fixer_vars, sim_vars>>

SpecSnapshot == Init /\ [][NextSnapshot]_vars

(***************************************************************************)
(* The calling boundary of entities and relationships: the routes of       *)
(* api/routes/knowledge.py, with the snapshot calls of the simulation      *)
(* engine.  A route runs to its end without suspending.                    *)
(***************************************************************************)
\* the outcome of a route: success, or the HTTPException it raises
OK == "ok"
NOT_FOUND == "404"
BAD_REQUEST == "400"

\* get_entity: the entities stored under the id (none: None)
get_entity(entity_id) == {e \in Range(entities) : e.id = entity_id}

\* the route's test of the source entity alone
endpoints_exist_SourceOnly(relationship) ==
    get_entity(relationship.source_entity_id) # {}

\* the route's two tests: source and target are stored
endpoints_exist(relationship) ==
    /\ get_entity(relationship.source_entity_id) # {}
    /\ get_entity(relationship.target_entity_id) # {}

api_add_entity(entity) ==
    /\ AddEntity(entity)
    /\ Record("api_add_entity", entity, {OK}, <<>>)

api_add_relationship(relationship) ==
    IF endpoints_exist(relationship)
    THEN /\ AddRelationship(relationship)
         /\ Record("api_add_relationship", relationship, {OK}, <<>>)
    ELSE /\ Record("api_add_relationship", relationship, {NOT_FOUND}, <<>>)
         /\ UNCHANGED <<store, next_id, graph_vars, snap_vars>>

api_clear(confirm) ==
    IF confirm
    THEN Clear /\ Record("api_clear", confirm, {OK}, <<>>)
    ELSE /\ Record("api_clear", confirm, {BAD_REQUEST}, <<>>)
         /\ UNCHANGED <<store, next_id, graph_vars, snap_vars>>

BoundaryEntities == [id : EntityIds, name : {"Alice"}]

BoundaryRelationships ==
    [id : {1}, source_entity_id : EntityIds, target_entity_id : EntityIds]

NextBoundary ==
    \/ \E entity \in BoundaryEntities :
           api_add_entity(entity) /\ UNCHANGED <<trav_vars, check_vars, score_vars, tracker_vars, conc_vars, engine_vars, fixer_vars, sim_vars>>
    \/ \E relationship \in BoundaryRelationships :
           api_add_relationship(relationship)
               /\ UNCHANGED <<trav_vars, check_vars, score_vars, tracker_vars, conc_vars, engine_vars, fixer_vars, sim_vars>>
    \/ \E confirm \in BOOLEAN :
           api_clear(confirm) /\ UNCHANGED <<trav_vars, check_vars, score_vars, tracker_vars, conc_vars, engine_vars, fixer_vars, sim_vars>>
    \/ CreateSnapshot /\ Touch("create_snapshot")
             /\ UNCHANGED <<trav_vars, check_vars, score_vars, tracker_vars, conc_vars, engine_vars, fixer_vars, sim_vars>>
    \/ RestoreSnapshot /\ Touch("restore_snapshot")
             /\ UNCHANGED <<trav_vars, check_vars, score_vars, tracker_vars, conc_vars, engine_vars, fixer_vars, sim_vars>>

SpecBoundary == Init /\ [][NextBoundary]_vars

(***************************************************************************)
(* Calls that overlap.  The store has no lock; callers on different        *)
(* threads interleave between the statements of add_fact and remove_fact   *)
(* and between the iterations of a traversal.  One caller runs the         *)
(* traversals, a second one add_fact and remove_fact statement by          *)
(* statement, and one snapshot is taken and restored in between.           *)
(***************************************************************************)
ConcDeps == {d \in DepLists : Len(d) <= 1 /\ \A i \in DOMAIN d : d[i] = 1}

InCall(call, fact_id, fact) ==
    [pc |-> call, fact_id |-> fact_id, subject |-> fact.subject,
     dependencies |-> fact.dependencies]

\* add_fact up to self._facts[fact_id] = fact
AddFactPut(subject, predicate, object_, dependencies) ==
    /\ mut.pc = "idle"
    /\ next_id <= MaxFacts
    /\ LET fact == NewFact(subject, predicate, object_, dependencies)
       IN  /\ facts' = DictPut(facts, next_id, fact)
           /\ fact_keys' = Append(fact_keys, next_id)
           /\ mut' = InCall("add_fact_index", next_id, fact)
    /\ next_id' = next_id + 1
    /\ UNCHANGED <<fact_index, dependent_index>>

\* add_fact's subject index statements
AddFactIndex ==
    /\ mut.pc = "add_fact_index"
    /\ fact_index' = IndexSubject(fact_index, mut.subject, mut.fact_id)
    /\ mut' = [mut EXCEPT !.pc = "add_fact_dependencies"]
    /\ UNCHANGED <<facts, fact_keys, dependent_index, next_id>>

\* add_fact's loop over the dependencies, and its return
AddFactDependencies ==
    /\ mut.pc = "add_fact_dependencies"
    /\ dependent_index' = IndexDependencies(dependent_index, mut.dependencies, mut.fact_id)
    /\ mut' = NoCall
    /\ UNCHANGED <<facts, fact_keys, fact_index, next_id>>

\* remove_fact up to del self._facts[fact_id]
RemoveFactDel(fact_id) ==
    /\ mut.pc = "idle"
    /\ fact_id \in DOMAIN facts
    /\ facts' = DictDel(facts, fact_id)
    /\ fact_keys' = SelectSeq(fact_keys, LAMBDA fid : fid # fact_id)
    /\ mut' = InCall("remove_fact_index", fact_id, facts[fact_id])
    /\ UNCHANGED <<fact_index, dependent_index, next_id>>

\* remove_fact's subject index statement
RemoveFactIndex ==
    /\ mut.pc = "remove_fact_index"
    /\ fact_index' = UnindexSubject(fact_index, mut.subject, mut.fact_id)
    /\ mut' = [mut EXCEPT !.pc = "remove_fact_dependents"]
    /\ UNCHANGED <<facts, fact_keys, dependent_index, next_id>>

\* remove_fact's reverse index statement, and its return
RemoveFactDependents ==
    /\ mut.pc = "remove_fact_dependents"
    /\ dependent_index' = UnindexDependents(dependent_index, mut.fact_id)
    /\ mut' = NoCall
    /\ UNCHANGED <<facts, fact_keys, fact_index, next_id>>

Mutate ==
    \/ \E dependencies \in ConcDeps : AddFactPut("Alice", "age", "25", dependencies)
    \/ AddFactIndex
    \/ AddFactDependencies
    \/ \E fact_id \in FactIds : RemoveFactDel(fact_id)
    \/ RemoveFactIndex
    \/ RemoveFactDependents

NextConcurrent ==
    \/ Mutate /\ UNCHANGED <<last, trav_vars, check_vars, score_vars, tracker_vars, engine_vars, fixer_vars, sim_vars,
                             graph_vars, snap_vars>>
    \/ \E fact_id \in FactIds : BeginInvalidate(fact_id)
    \/ \E fact_id \in FactIds : BeginPropagate(fact_id)
    \/ IterateInvalidate
    \/ IteratePropagate
    \/ Return
    \/ /\ ~snapshot.taken
       /\ CreateSnapshot
       /\ Touch("create_snapshot")
       /\ UNCHANGED <<trav_vars, check_vars, score_vars, tracker_vars, conc_vars, engine_vars, fixer_vars, sim_vars>>
    \/ /\ RestoreSnapshot
       /\ Touch("restore_snapshot")
       /\ UNCHANGED <<trav_vars, check_vars, score_vars, tracker_vars, conc_vars, engine_vars, fixer_vars, sim_vars>>

SpecConcurrent == Init /\ [][NextConcurrent]_vars

(***************************************************************************)
(* ConstraintEngine: add_constraint, remove_constraint, clear and validate *)
(* on the engine's constraints.  A Constraint carries id, type, rule and   *)
(* is_hard; description, entity_ids and priority reach no decision of the  *)
(* engine.  _rules is keyed by str(id), which is one key per id.           *)
(***************************************************************************)
\* constraints a caller registers
MaxConstraints == 2
\* longest fact batch validated against registered constraints
MaxEngineBatch == 2

ConstraintIds == 1 .. MaxConstraints

\* the text "entity.<subject>.<attribute> <operator> <value>"
Rule(subject, attribute, operator, value) ==
    <<"entity", ".", subject, ".", attribute, " ">> \o operator \o <<" ">> \o value

RuleValues == {<<"18">>, <<"'", "abc", "'">>}

\* every operator with a number, == and != and > with a quoted word
WellFormedRules ==
    {Rule("Alice", "age", Alternatives[i], <<"18">>) : i \in DOMAIN Alternatives}
    \cup {Rule("Alice", "age", operator, <<"'", "abc", "'">>) :
              operator \in {<<"=", "=">>, <<"!", "=">>, <<">">>}}

\* "entity.Alice.age = 18", "Alice.age == 18", "entity.Alice.age >"
MalformedRules ==
    {<<"entity", ".", "Alice", ".", "age", " ", "=", " ", "18">>,
     <<"Alice", ".", "age", " ", "=", "=", " ", "18">>,
     <<"entity", ".", "Alice", ".", "age", " ", ">">>}

\* the constraints the callers register: any rule under the first id, a
\* few rules under the others
Constraints ==
    {c \in [id : ConstraintIds, type : {"temporal", "behavioral"},
            rule : WellFormedRules \cup MalformedRules, is_hard : BOOLEAN] :
         \/ c.id = 1 /\ c.type = "temporal"
         \/ /\ c.id > 1 /\ c.type = "behavioral"
            /\ c.rule \in {Rule("Alice", "age", <<"=", "=">>, <<"'", "abc", "'">>),
                           Rule("Alice", "age", <<">", "=">>, <<"18">>),
                           <<"entity", ".", "Alice", ".", "age", " ", "=", " ", "18">>}}

EngineObjects == {<<"10">>, <<"18">>, <<"20">>, <<"abc">>, <<"ABC">>}

\* the facts a validated batch is built from
EngineTriples ==
    [subject : {"Alice"}, predicate : {"age"}, object : EngineObjects]
    \cup {[subject |-> "Bob", predicate |-> "age", object |-> <<"10">>],
          [subject |-> "Alice", predicate |-> "occupation", object |-> <<"10">>]}

EngineBatches(n) ==
    {[i \in DOMAIN q |-> [id |-> 0 - i, subject |-> q[i].subject,
                          predicate |-> q[i].predicate, object |-> q[i].object]] :
         q \in SeqsUpTo(EngineTriples, n)}

\* str(constraint.id): the text of an id, one text per id
str(constraint_id) == ToString(constraint_id)

\* _compile_rule
compile_rule(constraint) ==
    DictPut(rules, str(constraint.id),
            [type |-> constraint.type, rule |-> constraint.rule,
             is_hard |-> constraint.is_hard])

\* add_constraint
AddConstraint(constraint) ==
    /\ constraints' = PutById(constraints, constraint)
    /\ rules' = compile_rule(constraint)
    /\ Record("add_constraint", constraint.id, {}, <<>>)

\* remove_constraint, were it to leave the compiled rule behind
RemoveConstraint_KeepRule(constraint_id) ==
    IF \E i \in DOMAIN constraints : constraints[i].id = constraint_id
    THEN /\ constraints' = SelectSeq(constraints, LAMBDA c : c.id # constraint_id)
         /\ rules' = rules
         /\ Record("remove_constraint", constraint_id, {TRUE}, <<>>)
    ELSE /\ UNCHANGED engine_vars
         /\ Record("remove_constraint", constraint_id, {FALSE}, <<>>)

\* remove_constraint
RemoveConstraint(constraint_id) ==
    IF \E i \in DOMAIN constraints : constraints[i].id = constraint_id
    THEN /\ constraints' = SelectSeq(constraints, LAMBDA c : c.id # constraint_id)
         /\ rules' = DictDel(rules, str(constraint_id))
         /\ Record("remove_constraint", constraint_id, {TRUE}, <<>>)
    ELSE /\ UNCHANGED engine_vars
         /\ Record("remove_constraint", constraint_id, {FALSE}, <<>>)

\* clear
ClearConstraints ==
    /\ constraints' = <<>>
    /\ rules' = EmptyDict
    /\ Record("clear", 0, {}, <<>>)

\* the caller that goes on to another call has let go of the batch it had
\* validated and of the issues it got back
Dropped == new_facts' = <<>> /\ issues' = <<>>

NextEngine ==
    \/ \E constraint \in Constraints :
           /\ AddConstraint(constraint)
           /\ Dropped
           /\ UNCHANGED <<store, next_id, trav_vars, score_vars, tracker_vars,
                          graph_vars, snap_vars, conc_vars, fixer_vars, sim_vars>>
    \/ \E constraint_id \in ConstraintIds :
           /\ RemoveConstraint(constraint_id)
           /\ Dropped
           /\ UNCHANGED <<store, next_id, trav_vars, score_vars, tracker_vars,
                          graph_vars, snap_vars, conc_vars, fixer_vars, sim_vars>>
    \/ /\ ClearConstraints
       /\ Dropped
       /\ UNCHANGED <<store, next_id, trav_vars, score_vars, tracker_vars,
                      graph_vars, snap_vars, conc_vars, fixer_vars, sim_vars>>
    \/ \E batch \in EngineBatches(MaxEngineBatch) :
           /\ Validate(batch)
           /\ UNCHANGED <<trav_vars, score_vars, tracker_vars, graph_vars, snap_vars,
                          conc_vars, engine_vars, fixer_vars, sim_vars>>

SpecEngine == Init /\ [][NextEngine]_vars

(***************************************************************************)
(* The Propagator and the two detectors on a store that holds facts with   *)
(* dependencies, an entity and a relationship.                             *)
(***************************************************************************)
FrameDeps == {d \in DepLists : Len(d) <= 1}

FrameBatches ==
    {b \in Batches(MaxNewFacts) :
         \A i \in DOMAIN b : b[i].subject = "Alice" /\ b[i].predicate = "age"}

FrameEntity == [id |-> 1, name |-> "Alice"]

FrameRelationship == [id |-> 1, source_entity_id |-> 1, target_entity_id |-> 1]

NextFrame ==
    \/ \E dependencies \in FrameDeps :
           /\ AddFact("Alice", "age", "25", dependencies)
           /\ Touch("add_fact")
           /\ Dropped
           /\ UNCHANGED <<trav_vars, score_vars, tracker_vars, conc_vars, engine_vars, fixer_vars, sim_vars,
                          graph_vars, snap_vars>>
    \/ \E fact_id \in FactIds :
           /\ RemoveFact(fact_id)
           /\ Touch("remove_fact")
           /\ Dropped
           /\ UNCHANGED <<trav_vars, score_vars, tracker_vars, conc_vars, engine_vars, fixer_vars, sim_vars,
                          graph_vars, snap_vars>>
    \/ /\ AddEntity(FrameEntity)
       /\ Touch("add_entity")
       /\ Dropped
       /\ UNCHANGED <<trav_vars, score_vars, tracker_vars, conc_vars, engine_vars, fixer_vars, sim_vars>>
    \/ /\ AddRelationship(FrameRelationship)
       /\ Touch("add_relationship")
       /\ Dropped
       /\ UNCHANGED <<trav_vars, score_vars, tracker_vars, conc_vars, engine_vars, fixer_vars, sim_vars>>
    \/ \E fact_id \in FactIds :
           /\ InvalidateFact(fact_id)
           /\ Dropped
           /\ UNCHANGED <<trav_vars, score_vars, tracker_vars, conc_vars, engine_vars, fixer_vars, sim_vars,
                          graph_vars, snap_vars>>
    \/ \E fact_id \in FactIds :
           /\ PropagateChange(fact_id)
           /\ Dropped
           /\ UNCHANGED <<trav_vars, score_vars, tracker_vars, conc_vars, engine_vars, fixer_vars, sim_vars,
                          graph_vars, snap_vars>>
    \/ \E batch \in FrameBatches :
           /\ CheckConflicts(batch)
           /\ UNCHANGED <<trav_vars, score_vars, tracker_vars, conc_vars, engine_vars, fixer_vars, sim_vars,
                          graph_vars, snap_vars>>
    \/ \E batch \in FrameBatches :
           /\ Validate(batch)
           /\ UNCHANGED <<trav_vars, score_vars, tracker_vars, conc_vars, engine_vars, fixer_vars, sim_vars,
                          graph_vars, snap_vars>>

SpecFrame == Init /\ [][NextFrame]_vars

(***************************************************************************)
(* add_fact and remove_fact with subjects that differ in case only and     *)
(* facts that share subject and predicate.                                 *)
(***************************************************************************)
IndexSubjects == {"Alice", "alice", "Bob"}

NextIndex ==
    \/ \E subject \in IndexSubjects, object_ \in Objects :
           /\ AddFact(subject, "age", object_, <<>>)
           /\ Record("add_fact", next_id, {next_id}, <<>>)
           /\ UNCHANGED <<trav_vars, check_vars, score_vars, tracker_vars, conc_vars,
                          engine_vars, fixer_vars, sim_vars, graph_vars, snap_vars>>
    \/ \E fact_id \in FactIds :
           /\ RemoveFact(fact_id)
           /\ Record("remove_fact", fact_id, {remove_fact_result(fact_id)}, <<>>)
           /\ UNCHANGED <<trav_vars, check_vars, score_vars, tracker_vars, conc_vars,
                          engine_vars, fixer_vars, sim_vars, graph_vars, snap_vars>>

SpecIndex == Init /\ [][NextIndex]_vars

(***************************************************************************)
(* The store mutated in place while the caller holds a snapshot.  A write  *)
(* to a map of the store is a write to the snapshot's map exactly when the *)
(* two are one object.                                                     *)
(***************************************************************************)
\* the snapshot after the store's fact maps were written in place
Seen ==
    /\ snapshot' = IF snapshot.taken /\ snapshot.shared
                   THEN [snapshot EXCEPT !.facts = facts', !.fact_keys = fact_keys',
                                         !.fact_index = fact_index',
                                         !.dependent_index = dependent_index']
                   ELSE snapshot
    /\ observed' = observed

\* a caller's assignment to the object of a fact that get_fact returned
SetObject(fact_id, object_) ==
    /\ fact_id \in DOMAIN facts
    /\ facts' = [facts EXCEPT ![fact_id].object = object_]
    /\ UNCHANGED <<fact_keys, fact_index, dependent_index, next_id>>

NextIsolation ==
    \/ \E dependencies \in SnapDeps :
           /\ next_id <= MaxSnapFacts
           /\ AddFact("Alice", "age", "25", dependencies)
           /\ Touch("add_fact")
           /\ Seen
           /\ UNCHANGED <<trav_vars, check_vars, score_vars, tracker_vars, conc_vars,
                          engine_vars, fixer_vars, sim_vars, graph_vars>>
    \/ \E fact_id \in 1 .. MaxSnapFacts :
           /\ RemoveFact(fact_id)
           /\ Touch("remove_fact")
           /\ Seen
           /\ UNCHANGED <<trav_vars, check_vars, score_vars, tracker_vars, conc_vars,
                          engine_vars, fixer_vars, sim_vars, graph_vars>>
    \/ \E fact_id \in 1 .. MaxSnapFacts :
           /\ facts' = invalidate_fact(fact_id).fs
           /\ Touch("invalidate_fact")
           /\ Seen
           /\ UNCHANGED <<fact_keys, fact_index, dependent_index, next_id, trav_vars,
                          check_vars, score_vars, tracker_vars, conc_vars, engine_vars, fixer_vars, sim_vars,
                          graph_vars>>
    \/ \E fact_id \in 1 .. MaxSnapFacts :
           /\ SetObject(fact_id, "30")
           /\ Touch("set_object")
           /\ Seen
           /\ UNCHANGED <<trav_vars, check_vars, score_vars, tracker_vars, conc_vars,
                          engine_vars, fixer_vars, sim_vars, graph_vars>>
    \/ /\ CreateSnapshot
       /\ Touch("create_snapshot")
       /\ UNCHANGED <<trav_vars, check_vars, score_vars, tracker_vars, conc_vars,
                      engine_vars, fixer_vars, sim_vars>>
    \/ /\ RestoreSnapshot
       /\ Touch("restore_snapshot")
       /\ UNCHANGED <<trav_vars, check_vars, score_vars, tracker_vars, conc_vars,
                      engine_vars, fixer_vars, sim_vars>>

SpecIsolation == Init /\ [][NextIsolation]_vars

(***************************************************************************)
(* NarrativeFixer.generate_fixes and get_auto_fixes.  Confidence and       *)
(* impact are written in hundredths; every value is a literal of the       *)
(* source, compared with other literals only.  A description is the        *)
(* sequence of its tokens.                                                 *)
(***************************************************************************)
\* issues passed to one get_auto_fixes call, and distinct issue ids
MaxFixIssues == 2
\* get_auto_fixes calls
MaxFixCalls == 2

AutoConfidence == 70

FixSuggestion(issue, fix_type, confidence, impact_score, auto_applicable) ==
    [issue_id |-> issue.id, fix_type |-> fix_type, confidence |-> confidence,
     impact_score |-> impact_score, auto_applicable |-> auto_applicable]

\* re.search(r"Existing:\s*'([^']+)'.*New:\s*'([^']+)'", description)
ExistingNewMatch(description) ==
    \E i \in DOMAIN description, j \in DOMAIN description :
        /\ i + 3 < j /\ j + 3 <= Len(description)
        /\ description[i] = "Existing:" /\ description[i + 1] = "'"
        /\ description[i + 2] # "'" /\ description[i + 3] = "'"
        /\ description[j] = "New:" /\ description[j + 1] = "'"
        /\ description[j + 2] # "'" /\ description[j + 3] = "'"

generate_factual_fixes(issue) ==
    IF ExistingNewMatch(issue.description)
    THEN <<FixSuggestion(issue, "replace", 80, 20, TRUE),
           FixSuggestion(issue, "retcon", 60, 60, FALSE),
           FixSuggestion(issue, "clarify", 70, 40, FALSE)>>
    ELSE <<>>

generate_temporal_fixes(issue) ==
    <<FixSuggestion(issue, "insert", 75, 20, TRUE),
      FixSuggestion(issue, "reorder", 60, 70, FALSE)>>

generate_behavioral_fixes(issue) ==
    <<FixSuggestion(issue, "insert", 80, 30, TRUE),
      FixSuggestion(issue, "insert", 70, 40, FALSE)>>

generate_causal_fixes(issue) ==
    <<FixSuggestion(issue, "insert", 60, 30, FALSE),
      FixSuggestion(issue, "insert", 70, 20, TRUE)>>

generate_spatial_fixes(issue) ==
    <<FixSuggestion(issue, "insert", 75, 30, TRUE),
      FixSuggestion(issue, "insert", 65, 50, FALSE)>>

generate_generic_fix(issue) == FixSuggestion(issue, "clarify", 50, 50, FALSE)

\* the sort key (s.confidence, -s.impact_score) of a is greater than b's
KeyGreater(a, b) ==
    \/ a.confidence > b.confidence
    \/ a.confidence = b.confidence /\ 0 - a.impact_score > 0 - b.impact_score

\* s put into a list sorted by descending key, behind the members whose key
\* is not smaller: list.sort is stable, with reverse=True too
RECURSIVE InsertByKey(_, _)
InsertByKey(sorted, s) ==
    IF sorted = <<>> THEN <<s>>
    ELSE IF KeyGreater(s, Head(sorted)) THEN <<s>> \o sorted
    ELSE <<Head(sorted)>> \o InsertByKey(Tail(sorted), s)

\* suggestions.sort(key=lambda s: (s.confidence, -s.impact_score), reverse=True)
RECURSIVE SortSuggestions(_)
SortSuggestions(suggestions) ==
    IF suggestions = <<>> THEN <<>>
    ELSE InsertByKey(SortSuggestions(SubSeq(suggestions, 1, Len(suggestions) - 1)),
                     suggestions[Len(suggestions)])

\* generate_fixes: the suggestions it returns
generate_fixes(issue) ==
    SortSuggestions(
        CASE issue.type = "factual" -> generate_factual_fixes(issue)
          [] issue.type = "temporal" -> generate_temporal_fixes(issue)
          [] issue.type = "behavioral" -> generate_behavioral_fixes(issue)
          [] issue.type = "causal" -> generate_causal_fixes(issue)
          [] issue.type = "spatial" -> generate_spatial_fixes(issue)
          [] OTHER -> <<generate_generic_fix(issue)>>)

\* generate_fixes: what it leaves in _suggestions
StoreSuggestions(stored, issue) ==
    DictPut(stored, issue.id, DictGet(stored, issue.id, <<>>) \o generate_fixes(issue))

\* an inner loop that takes the first suggestion whatever it is
FirstAutoFix_Any(suggestions) ==
    IF suggestions = <<>> THEN <<>> ELSE <<Head(suggestions)>>

\* the inner loop of get_auto_fixes: the first suggestion that is
\* auto_applicable with confidence >= 0.7, then break
RECURSIVE FirstAutoFix(_)
FirstAutoFix(suggestions) ==
    IF suggestions = <<>> THEN <<>>
    ELSE IF Head(suggestions).auto_applicable /\ Head(suggestions).confidence >= AutoConfidence
    THEN <<Head(suggestions)>>
    ELSE FirstAutoFix(Tail(suggestions))

\* the outer loop of get_auto_fixes
RECURSIVE get_auto_fixes(_, _)
get_auto_fixes(f, issue_list) ==
    IF issue_list = <<>> THEN f
    ELSE get_auto_fixes(
             [f EXCEPT !.suggestions = StoreSuggestions(f.suggestions, Head(issue_list)),
                       !.auto_fixes = f.auto_fixes \o FirstAutoFix(generate_fixes(Head(issue_list)))],
             Tail(issue_list))

\* "Contradiction: ... Existing: '25', New: '30'", as check_conflicts
\* writes it, and "Multiple conflicting values for Alice.age", as the
\* implicit pass of validate writes it
FixDescriptions ==
    {<<"Contradiction", "Existing:", "'", "25", "'", ",", "New:", "'", "30", "'">>,
     <<"Multiple", "conflicting", "values", "for", "Alice", ".", "age">>}

\* the issues handed to the fixer
FixIssues ==
    {i \in [id : 1 .. MaxFixIssues, type : ConstraintTypes, description : FixDescriptions] :
         i.type # "factual" => ~ExistingNewMatch(i.description)}

GetAutoFixes(issue_list) ==
    /\ fixer.calls < MaxFixCalls
    /\ fixer' = get_auto_fixes([fixer EXCEPT !.calls = @ + 1, !.issues = issue_list,
                                             !.auto_fixes = <<>>], issue_list)
    /\ Touch("get_auto_fixes")

NextFixer ==
    \E issue_list \in SeqsUpTo(FixIssues, MaxFixIssues) :
        /\ GetAutoFixes(issue_list)
        /\ UNCHANGED <<store, next_id, trav_vars, check_vars, score_vars, tracker_vars,
                       graph_vars, snap_vars, conc_vars, engine_vars, sim_vars>>

SpecFixer == Init /\ [][NextFixer]_vars

(***************************************************************************)
(* SimulationEngine: a stack of store snapshots with a step counter.       *)
(***************************************************************************)
\* most entries the history is let grow to
MaxHistory == 3

SimEntities == [id : {1}, name : {"Alice", "Bob"}]

\* the names process_action is called with
Characters == {"Alice", "alice", "Bob"}

SimActions == {"walk", "fly"}

\* what the narrator returns
Narratives == {"narrated"}

\* find_entity_by_name: the first entity whose name is the given one when
\* both are put in lower case; <<>> stands for None
find_entity_by_name(name) ==
    SelectSeq(entities, LAMBDA entity : lower(<<entity.name>>) = lower(<<name>>))

HistoryEntry(step, snap, action, narrative) ==
    [step |-> step, snapshot |-> snap, action |-> action, narrative |-> narrative]

\* initialize_session
InitializeSession ==
    /\ Len(history) < MaxHistory
    /\ history' = Append(history, HistoryEntry(0, create_snapshot, "INIT", "Simulation started."))
    /\ Record("initialize_session", "", {}, <<>>)
    /\ UNCHANGED <<current_step, store, next_id, graph_vars, snap_vars>>

\* the names the body of process_action can read: its parameters, its
\* locals and what the module imports or defines
ProcessActionNames ==
    {"self", "character", "action", "entity", "context_facts", "context_str",
     "is_possible", "narrative", "new_snapshot", "ctypes", "os", "sys",
     "lib_name", "lib_path", "p1", "p2", "mode", "time_mins", "e",
     "Dict", "Any", "List", "Optional", "UUID", "uuid4", "datetime",
     "KnowledgeGraph", "DungeonMaster", "SimulationEngine"}

\* the step process_action takes once the feasibility check and the
\* narrator have answered
Outcome(character, action_description, is_possible, narrative) ==
    IF ~is_possible
    THEN /\ Record("process_action", character, {"impossible"}, <<>>)
         /\ UNCHANGED sim_vars
    ELSE /\ Len(history) < MaxHistory
         /\ current_step' = current_step + 1
         /\ history' = Append(history, HistoryEntry(current_step + 1, create_snapshot,
                                                    action_description, narrative))
         /\ Record("process_action", character, {"success"}, <<>>)

\* process_action: loading the physics library changes nothing the engine
\* keeps, whether it succeeds or not; an unknown character returns at once;
\* past that the body reads character_name and action_description
ProcessAction(character, action) ==
    /\ IF find_entity_by_name(character) = <<>>
       THEN /\ Record("process_action", character, {"not found"}, <<>>)
            /\ UNCHANGED sim_vars
       ELSE IF {"character_name", "action_description"} \subseteq ProcessActionNames
       THEN \E is_possible \in BOOLEAN, narrative \in Narratives :
                Outcome(character, action, is_possible, narrative)
       ELSE /\ Record("process_action", character, {"NameError"}, <<>>)
            /\ UNCHANGED sim_vars
    /\ UNCHANGED <<store, next_id, graph_vars, snap_vars>>

\* undo
Undo ==
    IF Len(history) <= 1
    THEN /\ Record("undo", "", {"failure"}, <<>>)
         /\ UNCHANGED <<sim_vars, store, next_id, graph_vars, snap_vars>>
    ELSE LET popped == SubSeq(history, 1, Len(history) - 1)
             previous == popped[Len(popped)]
             s == restore_snapshot(previous.snapshot)
         IN  /\ history' = popped
             /\ entities' = s.entities
             /\ relationships' = s.relationships
             /\ facts' = s.facts
             /\ fact_keys' = s.fact_keys
             /\ fact_index' = s.fact_index
             /\ dependent_index' = s.dependent_index
             /\ current_step' = previous.step
             /\ Record("undo", "", {"success"}, <<>>)
             /\ UNCHANGED <<next_id, snap_vars>>

NextSimulation ==
    \/ \E entity \in SimEntities :
           /\ AddEntity(entity)
           /\ Record("add_entity", "", {}, <<>>)
           /\ UNCHANGED <<trav_vars, check_vars, score_vars, tracker_vars, conc_vars,
                          engine_vars, fixer_vars, sim_vars>>
    \/ /\ AddFact("Alice", "age", "25", <<>>)
       /\ Record("add_fact", "", {}, <<>>)
       /\ UNCHANGED <<trav_vars, check_vars, score_vars, tracker_vars, conc_vars,
                      engine_vars, fixer_vars, sim_vars, graph_vars, snap_vars>>
    \/ /\ InitializeSession
       /\ UNCHANGED <<trav_vars, check_vars, score_vars, tracker_vars, conc_vars,
                      engine_vars, fixer_vars>>
    \/ \E character \in Characters, action \in SimActions :
           /\ ProcessAction(character, action)
           /\ UNCHANGED <<trav_vars, check_vars, score_vars, tracker_vars, conc_vars,
                          engine_vars, fixer_vars>>
    \/ /\ Undo
       /\ UNCHANGED <<trav_vars, check_vars, score_vars, tracker_vars, conc_vars,
                      engine_vars, fixer_vars>>

SpecSimulation == Init /\ [][NextSimulation]_vars

(***************************************************************************)
(* The dependency graph as the facts' own dependency lists state it.       *)
(***************************************************************************)
\* the stored facts whose dependency list holds an id of S
DirectDependents(fs, S) ==
    {f \in DOMAIN fs : \E d \in S : d \in Range(fs[f].dependencies)}

\* S with every stored fact that transitively depends on a member of S
RECURSIVE Closure(_, _)
Closure(fs, S) ==
    LET S2 == S \cup DirectDependents(fs, S)
    IN  IF S2 = S THEN S ELSE Closure(fs, S2)

\* the stored facts that depend on fact_id through one or more edges
TransitiveDependents(fs, fact_id) == Closure(fs, DirectDependents(fs, {fact_id}))

DependsOn(f, deps) == Stored(f) /\ facts[f].dependencies = deps

\* the chain A -> B -> C: 2 depends on 1, 3 depends on 2
IsChain ==
    /\ DOMAIN facts = {1, 2, 3}
    /\ DependsOn(1, <<>>) /\ DependsOn(2, <<1>>) /\ DependsOn(3, <<2>>)

\* the chain closed into a cycle: 1 depends on 3
IsCycle ==
    /\ DOMAIN facts = {1, 2, 3}
    /\ DependsOn(1, <<3>>) /\ DependsOn(2, <<1>>) /\ DependsOn(3, <<2>>)

(***************************************************************************)
(* C1. Invalidation closure: after invalidate_fact(seed) on a stored seed, *)
(* the seed and every stored fact reachable from it through reverse-       *)
(* dependency edges is invalid, and the returned id set is exactly that    *)
(* reachable set (3 ids for the chain A -> B -> C).                        *)
(***************************************************************************)
C1_InvalidationClosure ==
    (last.op = "invalidate_fact" /\ Stored(last.arg)) =>
        /\ last.ret = Closure(facts, {last.arg})
        /\ \A f \in Closure(facts, {last.arg}) : facts[f].validity_status = INVALID
        /\ (IsChain /\ last.arg = 1) => Cardinality(last.ret) = 3

C1_Witness ==
    /\ IsChain
    /\ last.op = "invalidate_fact" /\ last.arg = 1
    /\ last.ret = {1, 2, 3}
    /\ \A f \in {1, 2, 3} : facts[f].validity_status = INVALID

C3_IdempotentTraversal ==
    /\ [](last.op = "invalidate_fact" =>
            NoDup(last.writes) /\ Range(last.writes) = last.ret)
    /\ [][(last.op = "invalidate_fact" /\ last'.op = "invalidate_fact"
           /\ last'.arg = last.arg)
          => (last'.ret = last.ret /\ NoDup(last'.writes) /\ store' = store)]_vars

C3_Witness ==
    /\ IsCycle
    /\ last.op = "invalidate_fact" /\ last.arg = 1
    /\ last.ret = {1, 2, 3}
    /\ \A f \in {1, 2, 3} : facts[f].validity_status = INVALID

(***************************************************************************)
(* C10. propagate_change completeness: propagate_change(A) on a stored A   *)
(* leaves every stored fact that transitively depends on A dirty; the      *)
(* returned id set is exactly the set of facts the call wrote, and no fact *)
(* outside the transitive dependents of A is marked.                       *)
(***************************************************************************)
C10_PropagateComplete ==
    (last.op = "propagate_change" /\ Stored(last.arg)) =>
        /\ \A f \in TransitiveDependents(facts, last.arg) :
               facts[f].validity_status = DIRTY
        /\ last.ret = Range(last.writes)
        /\ last.ret = TransitiveDependents(facts, last.arg)

C10_Witness ==
    /\ IsChain
    /\ last.op = "propagate_change" /\ last.arg = 1
    /\ last.ret = {2, 3}
    /\ facts[1].validity_status = VALID
    /\ facts[2].validity_status = DIRTY /\ facts[3].validity_status = DIRTY

(***************************************************************************)
(* C9. Termination: invalidate_fact and propagate_change terminate on      *)
(* every finite store (cycles, self-dependencies, repeated and dangling    *)
(* dependency ids included), and within one call each stored fact has its  *)
(* status written at most once.                                            *)
(***************************************************************************)
C9_Termination ==
    /\ [](NoDup(trav.writes) /\ NoDup(last.writes))
    /\ (pc # "idle") ~> (pc = "idle")

\* a call returned after traversing a store with a self-dependency, a
\* repeated dependency id and a dangling dependency id on a cycle
C9_Witness ==
    /\ pc = "idle"
    /\ last.op \in {"invalidate_fact", "propagate_change"}
    /\ Len(last.writes) >= 2
    /\ \E f \in DOMAIN facts : f \in Range(facts[f].dependencies)
    /\ \E f \in DOMAIN facts : ~NoDup(facts[f].dependencies)
    /\ \E f \in DOMAIN facts : \E d \in Range(facts[f].dependencies) : ~Stored(d)

(***************************************************************************)
(* C4. Conflict detection: check_conflicts returns exactly one issue for   *)
(* every pair (new fact n, stored fact e) with the same subject, the same  *)
(* predicate and another object, and no other issue; each issue is         *)
(* factual/inconsistent with confidence 0.9 and conflicting_facts =        *)
(* [e.id, n.id]. A new fact conflicting with k stored facts gives k issues.*)
(***************************************************************************)
ConflictPairs ==
    {<<e, i>> \in (DOMAIN facts) \X (DOMAIN new_facts) :
        /\ facts[e].subject = new_facts[i].subject
        /\ facts[e].predicate = new_facts[i].predicate
        /\ facts[e].object # new_facts[i].object}

C4_ConflictDetection ==
    last.op = "check_conflicts" =>
        /\ Len(issues) = Cardinality(ConflictPairs)
        /\ \A p \in ConflictPairs :
               Cardinality({k \in DOMAIN issues :
                   issues[k].conflicting_facts = <<p[1], new_facts[p[2]].id>>}) = 1
        /\ \A k \in DOMAIN issues :
               /\ issues[k].type = "factual"
               /\ issues[k].level = "inconsistent"
               /\ issues[k].confidence = 90   \* 0.9
               /\ \E p \in ConflictPairs :
                      issues[k].conflicting_facts = <<p[1], new_facts[p[2]].id>>

\* stored (Alice, age, 25) twice, new (Alice, age, 30): two issues
C4_Witness ==
    /\ last.op = "check_conflicts"
    /\ Len(new_facts) = 1
    /\ new_facts[1].object = "30"
    /\ Cardinality({e \in DOMAIN facts :
           facts[e].subject = new_facts[1].subject
           /\ facts[e].predicate = new_facts[1].predicate
           /\ facts[e].object = "25"}) = 2
    /\ Len(issues) = 2

(***************************************************************************)
(* C5. Implicit contradiction: with no constraint registered and an empty  *)
(* store, validate reports exactly one factual/inconsistent issue with     *)
(* confidence 0.95 and conflicting_facts = all facts of the group for each *)
(* (subject, predicate) group of the batch whose objects are not all       *)
(* identical, and no factual issue for any other group.                    *)
(***************************************************************************)
GroupMembers(su, pr) ==
    {i \in DOMAIN new_facts : new_facts[i].subject = su /\ new_facts[i].predicate = pr}

Contradictory(su, pr) ==
    \E i, j \in GroupMembers(su, pr) : new_facts[i].object # new_facts[j].object

\* the issues that name exactly the facts of the group
IssuesOfGroup(su, pr) ==
    {k \in DOMAIN issues :
        {issues[k].conflicting_facts[n] : n \in DOMAIN issues[k].conflicting_facts}
            = {new_facts[i].id : i \in GroupMembers(su, pr)}}

C5_ImplicitContradiction ==
    (last.op = "validate" /\ DOMAIN facts = {}) =>
        /\ \A su \in Subjects, pr \in Predicates :
               IF Contradictory(su, pr)
               THEN /\ Cardinality(IssuesOfGroup(su, pr)) = 1
                    /\ \A k \in IssuesOfGroup(su, pr) :
                           /\ issues[k].type = "factual"
                           /\ issues[k].level = "inconsistent"
                           /\ issues[k].confidence = 95   \* 0.95
                           /\ Len(issues[k].conflicting_facts)
                                  = Cardinality(GroupMembers(su, pr))
               ELSE GroupMembers(su, pr) # {} => IssuesOfGroup(su, pr) = {}
        /\ Cardinality({k \in DOMAIN issues : issues[k].type = "factual"})
               = Cardinality({g \in Subjects \X Predicates : Contradictory(g[1], g[2])})

\* (Alice, age, 25), (Alice, age, 30) and an agreeing fact of another group
C5_Witness ==
    /\ last.op = "validate"
    /\ Len(new_facts) = 3
    /\ new_facts[1].subject = "Alice" /\ new_facts[1].predicate = "age"
    /\ new_facts[1].object = "25"
    /\ new_facts[2].subject = "Alice" /\ new_facts[2].predicate = "age"
    /\ new_facts[2].object = "30"
    /\ new_facts[3].subject = "Bob"
    /\ Len(issues) = 1
    /\ issues[1].conflicting_facts = <<new_facts[1].id, new_facts[2].id>>

(***************************************************************************)
(* C7: scores are monotonic in the issues.  With the facts and entities    *)
(* checked unchanged, a batch with one more issue never has a higher       *)
(* overall score, and never a higher score in any category, than the batch *)
(* without it.                                                             *)
(***************************************************************************)
C7_ScoreMonotonic ==
    [][(/\ score_in'.facts = score_in.facts
        /\ score_in'.entities = score_in.entities
        /\ \E t \in ConstraintTypes :
               score_in'.by_type = [score_in.by_type EXCEPT ![t] = @ + 1])
       => /\ report'.overall_score <= report.overall_score
          /\ \A t \in ConstraintTypes : report'.category[t] <= report.category[t]]_vars

\* eleven issues, eight of them factual, on a request that checked a fact:
\* both the overall and the factual score were clamped at 0.0
C7_Witness ==
    /\ score_in.facts + score_in.entities > 0
    /\ IssueCount(score_in.by_type) = 11
    /\ score_in.by_type["factual"] = 8
    /\ report.overall_score = 0
    /\ report.category["factual"] = 0
    /\ report.category["temporal"] < Float(100, 0)

(***************************************************************************)
(* C8: resurrection.  For every entity of a check_behavior call: if the    *)
(* entity has a recorded state with alive = false at position p and the    *)
(* text has a sentence of index greater than p that mentions the entity    *)
(* and contains an action word, the call returns exactly one               *)
(* behavioral/critical issue with confidence 0.9 for the entity, however   *)
(* many sentences or dead states match; otherwise it returns no critical   *)
(* issue for the entity.                                                   *)
(***************************************************************************)
Resurrected(ps, entity, text) ==
    \E k \in DOMAIN ps[entity].states :
        LET st == ps[entity].states[k]
        IN  /\ ~st.alive
            /\ \E i \in DOMAIN text : /\ i - 1 > st.position
                                      /\ entity \in text[i].mentions
                                      /\ text[i].action

CriticalIssues(iss, entity) ==
    {i \in DOMAIN iss : iss[i].level = "critical" /\ iss[i].entity = entity}

ResurrectionRule(ps, b) ==
    \A entity \in Range(b.entities) :
        IF Resurrected(ps, entity, b.text)
        THEN /\ Cardinality(CriticalIssues(b.issues, entity)) = 1
             /\ \A i \in CriticalIssues(b.issues, entity) :
                    /\ b.issues[i].type = "behavioral"
                    /\ b.issues[i].confidence = ResurrectionConfidence
        ELSE CriticalIssues(b.issues, entity) = {}

C6_SnapshotRoundTrip == last.op = "restore_snapshot" => Observe = observed

\* a restore that undid an added fact (its id is spent, the store is back
\* to one fact), a status change and a removal from the reverse index
C6_Witness ==
    /\ last.op = "restore_snapshot"
    /\ next_id = 3
    /\ DOMAIN facts = {2}
    /\ facts[2].validity_status = VALID
    /\ get_dependents(1) = <<2>>
    /\ Len(entities) = 1

(***************************************************************************)
(* C11. remove_fact(f) on a stored fact returns true and afterwards no     *)
(* query returns f: get_fact(f) is absent, get_facts and                   *)
(* get_facts_by_subject omit it, get_dependents(f) is empty and            *)
(* get_dependents(d) omits f for every d.  Every other fact keeps its      *)
(* fields, its validity status and its dependency list, f included in it   *)
(* as a dangling id.                                                       *)
(***************************************************************************)
Without(s, f) == SelectSeq(s, LAMBDA x : x # f)

C11_RemoveFact ==
    [][(last'.op = "remove_fact" /\ last'.arg \in DOMAIN facts) =>
        LET f == last'.arg
        IN  /\ last'.ret = {TRUE}
            /\ f \notin DOMAIN facts'
            /\ fact_keys' = Without(fact_keys, f)
            /\ \A subject \in Subjects :
                   get_facts_by_subject_in(facts', fact_index', subject)
                       = Without(get_facts_by_subject(subject), f)
            /\ get_dependents_in(facts', dependent_index', f) = <<>>
            /\ \A d \in FactIds \ {f} :
                   get_dependents_in(facts', dependent_index', d)
                       = Without(get_dependents(d), f)
            /\ \A g \in DOMAIN facts \ {f} : g \in DOMAIN facts' /\ facts'[g] = facts[g]]_vars

\* a stored fact was removed while a stored fact lists it as a dependency
C11_Witness ==
    /\ last.op = "remove_fact" /\ last.ret = {TRUE}
    /\ last.arg \notin DOMAIN facts
    /\ get_dependents(last.arg) = <<>>
    /\ \E g \in DOMAIN facts : last.arg \in Range(facts[g].dependencies)

(***************************************************************************)
(* C12. Overall score and level: the overall score is                      *)
(* max(0, 1 - 0.1 * issue count) when a fact or an entity was checked and  *)
(* 1.0 otherwise; the level is consistent from 0.9, warning from 0.7,      *)
(* inconsistent from 0.4 and critical below, so that with checked inputs 0 *)
(* or 1 issues give consistent, 2 or 3 warning, 4 to 6 inconsistent and 7  *)
(* or more critical; the score lies in [0, 1].                             *)
(***************************************************************************)
LevelByCount(n) ==
    IF n <= 1 THEN "consistent"
    ELSE IF n <= 3 THEN "warning"
    ELSE IF n <= 6 THEN "inconsistent"
    ELSE "critical"

C12_OverallScoreAndLevel ==
    LET n == IssueCount(score_in.by_type)
        checked == score_in.facts + score_in.entities > 0
        decimal == IF 100 - 10 * n < 0 THEN 0 ELSE 100 - 10 * n
    IN  /\ report.overall_score = (IF checked THEN Float(decimal, 0) ELSE Float(100, 0))
        /\ report.level = level_of(report.overall_score)
        /\ checked => report.level = LevelByCount(n)
        /\ ~checked => report.level = "consistent"
        /\ report.overall_score >= 0 /\ report.overall_score <= Float(100, 0)

(***************************************************************************)
(* C13. Not-found is a value: for a fact id or subject that is not in the  *)
(* store, get_fact is absent, get_dependents and get_facts_by_subject are  *)
(* empty, remove_fact returns false, invalidate_fact returns no id and     *)
(* propagate_change an empty dirty set, and the three calls leave the      *)
(* store unchanged.                                                        *)
(***************************************************************************)
SubjectStored(subject) == \E f \in DOMAIN facts : facts[f].subject = subject

C13_NotFound ==
    /\ [](/\ \A fact_id \in FactIds \ DOMAIN facts : get_dependents(fact_id) = <<>>
          /\ \A subject \in Subjects :
                 ~SubjectStored(subject) => get_facts_by_subject(subject) = <<>>)
    /\ [][(/\ last'.op \in {"remove_fact", "invalidate_fact", "propagate_change"}
           /\ last'.arg \notin DOMAIN facts)
          => /\ last'.ret = (IF last'.op = "remove_fact" THEN {FALSE} ELSE {})
             /\ last'.writes = <<>>
             /\ UNCHANGED store]_vars

(***************************************************************************)
(* C14. Referential integrity of relationships: creating a relationship    *)
(* through the boundary fails, adding nothing to the store, when the       *)
(* source or the target entity is absent; so in every state reached        *)
(* through boundary calls every stored relationship has both endpoint      *)
(* entities in the store.                                                  *)
(***************************************************************************)
C14_ReferentialIntegrity ==
    /\ [](\A i \in DOMAIN relationships :
              /\ get_entity(relationships[i].source_entity_id) # {}
              /\ get_entity(relationships[i].target_entity_id) # {})
    /\ [][(/\ last'.op = "api_add_relationship"
           /\ \/ get_entity(last'.arg.source_entity_id) = {}
              \/ get_entity(last'.arg.target_entity_id) = {})
          => /\ last'.ret = {NOT_FOUND}
             /\ UNCHANGED <<store, graph_vars>>]_vars

\* a relationship was refused for its absent target, one with both
\* endpoints is stored
C14_Witness ==
    /\ last.op = "api_add_relationship" /\ last.ret = {NOT_FOUND}
    /\ get_entity(last.arg.source_entity_id) # {}
    /\ get_entity(last.arg.target_entity_id) = {}
    /\ Len(relationships) = 1

(***************************************************************************)
(* C15. Concurrent mutation is detected: when mutating calls overlap       *)
(* without serialization the caller gets a ConcurrentModificationError,    *)
(* and in no interleaving are the subject index or the reverse-dependency  *)
(* index left inconsistent with the fact map once the calls have returned, *)
(* nor does an invalidate_fact traversal return with a stored dependent of *)
(* an invalidated fact still valid.  The store raises no such error: every *)
(* call returns its ordinary result, so the claim is the two guarantees.   *)
(***************************************************************************)
\* every fact of the map is listed under its subject and under each of
\* its stored dependencies, and the subject index lists stored facts only
MapsMatch(fs, fix, dix) ==
    /\ \A f \in DOMAIN fs :
           /\ f \in Range(DictGet(fix, fs[f].subject, <<>>))
           /\ \A k \in DOMAIN fs[f].dependencies :
                  fs[f].dependencies[k] \in DOMAIN fs =>
                      f \in Range(DictGet(dix, fs[f].dependencies[k], <<>>))
    /\ \A subject \in DOMAIN fix : Range(fix[subject]) \subseteq DOMAIN fs

IndexesMatchFacts == MapsMatch(facts, fact_index, dependent_index)

C15_ConcurrentMutation ==
    /\ []((pc = "idle" /\ mut.pc = "idle") => IndexesMatchFacts)
    /\ [][(pc = "invalidate_fact" /\ pc' = "idle") =>
            \A d \in DirectDependents(facts', last'.ret \cap DOMAIN facts') :
                facts'[d].validity_status # VALID]_vars

(***************************************************************************)
(* C16. Snapshot atomicity: create_snapshot and restore_snapshot are       *)
(* atomic with respect to concurrent mutating calls.  A snapshot never     *)
(* holds a fact that is in the fact map but missing from the subject index *)
(* or the reverse-dependency index, nor a subject index entry without its  *)
(* fact; a restore never leaves the store so once the calls in flight have *)
(* returned; and neither is taken or applied when only part of an          *)
(* invalidate_fact or propagate_change traversal has been written.         *)
(***************************************************************************)
\* the running traversal has written a status and has one more to write
PartlyApplied ==
    /\ pc # "idle"
    /\ trav.writes # <<>>
    /\ \E i \in DOMAIN trav.queue :
           trav.queue[i] \in DOMAIN facts /\ trav.queue[i] \notin trav.ids

C16_SnapshotAtomicity ==
    /\ [](snapshot.taken =>
              MapsMatch(snapshot.facts, snapshot.fact_index, snapshot.dependent_index))
    /\ []((last.op = "restore_snapshot" /\ pc = "idle" /\ mut.pc = "idle")
              => IndexesMatchFacts)
    /\ [][(last'.op \in {"create_snapshot", "restore_snapshot"} /\ last' # last)
              => ~PartlyApplied]_vars

(***************************************************************************)
(* What a rule says, read by the grammar                                   *)
(* entity.<Subject>.<attr> (==|!=|>|<|>=|<=) <value>.                      *)
(***************************************************************************)
\* rule is a sentence of the grammar
MatchesGrammar(rule) ==
    /\ Len(rule) >= 5
    /\ rule[1] = "entity" /\ rule[2] = "."
    /\ IsWord(rule[3]) /\ rule[4] = "." /\ IsWord(rule[5])
    /\ LET rest == lstrip(SubSeq(rule, 6, Len(rule)), WhiteSpace)
       IN  \E i \in DOMAIN Alternatives :
               StartsWith(rest, Alternatives[i]) /\ Len(rest) > Len(Alternatives[i])

\* the subject, attribute, operator and value a rule is written with; a
\* quoted value stands for the text between the quotes
Reading(rule) ==
    LET r == CHOOSE r \in [subject : {"Alice"}, attribute : {"age"},
                           operator : Range(Alternatives), value : RuleValues] :
                 rule = Rule(r.subject, r.attribute, r.operator, r.value)
    IN  [subject |-> r.subject, attribute |-> r.attribute, operator |-> r.operator,
         value |-> strip(r.value, Quotes)]

\* x OP v: numbers are compared as numbers; with an operand that is not a
\* number only literally equal texts satisfy; == and != ignore case
Satisfies(x, operator, v) ==
    IF operator = <<"=", "=">> THEN lower(x) = lower(v)
    ELSE IF operator = <<"!", "=">> THEN lower(x) # lower(v)
    ELSE IF float(x).ok /\ float(v).ok
    THEN Compare(float(x).value, operator, float(v).value)
    ELSE x = v

\* batch has a fact of the rule's subject and attribute whose object fails
\* the rule's operator
Violates(batch, rule) ==
    \E i \in DOMAIN batch :
        /\ batch[i].subject = Reading(rule).subject
        /\ batch[i].predicate = Reading(rule).attribute
        /\ ~Satisfies(batch[i].object, Reading(rule).operator, Reading(rule).value)

\* one issue for each registered constraint that batch violates, in order
RECURSIVE ViolationIssues(_, _)
ViolationIssues(registered, batch) ==
    IF registered = <<>> THEN <<>>
    ELSE (IF Violates(batch, Head(registered).rule)
          THEN <<[type |-> Head(registered).type,
                  level |-> IF Head(registered).is_hard THEN "inconsistent" ELSE "warning",
                  confidence |-> ConstraintConfidence,
                  conflicting_facts |-> <<>>]>>
          ELSE <<>>)
         \o ViolationIssues(Tail(registered), batch)

AllWellFormed == \A i \in DOMAIN constraints : MatchesGrammar(constraints[i].rule)

(***************************************************************************)
(* C17. Registered-constraint validation: with well-formed constraints     *)
(* registered, the issues validate returns ahead of those of the implicit  *)
(* pass are, constraint by constraint in registration order, one issue for *)
(* a constraint for which the batch has a fact of the constraint's subject *)
(* and attribute whose object fails the operator, and none for any other   *)
(* constraint; the issue has the constraint's type, level inconsistent for *)
(* a hard and warning for a soft constraint, and confidence 0.85.          *)
(***************************************************************************)
C17_ConstraintValidation ==
    (last.op = "validate" /\ AllWellFormed) =>
        issues = ViolationIssues(constraints, new_facts)
                     \o check_implicit_constraints(new_facts)

(***************************************************************************)
(* C18. Numeric operators: after validate of a one-fact batch (S, a, x)    *)
(* against the one registered constraint entity.S.a OP v, no issue is      *)
(* returned exactly when x OP v holds: as numbers for >, <, >=, <= when    *)
(* both are numbers, as literal equality when one is not a number, and     *)
(* ignoring case for == and !=.                                            *)
(***************************************************************************)
C18_NumericOperators ==
    (/\ last.op = "validate"
     /\ Len(constraints) = 1 /\ AllWellFormed
     /\ Len(new_facts) = 1
     /\ new_facts[1].subject = Reading(constraints[1].rule).subject
     /\ new_facts[1].predicate = Reading(constraints[1].rule).attribute) =>
        (issues = <<>> <=> Satisfies(new_facts[1].object,
                                      Reading(constraints[1].rule).operator,
                                      Reading(constraints[1].rule).value))

(***************************************************************************)
(* C19. Malformed rules are inert: add_constraint registers a constraint   *)
(* whatever its rule is, and validate returns the issues it returns with   *)
(* the constraints whose rule is no sentence of the grammar left out: such *)
(* a constraint yields no issue and changes no issue of the others or of   *)
(* the implicit pass.                                                      *)
(***************************************************************************)
C19_MalformedInert ==
    /\ last.op = "add_constraint" =>
           \E i \in DOMAIN constraints :
               /\ constraints[i].id = last.arg
               /\ str(last.arg) \in DOMAIN rules
               /\ rules[str(last.arg)].rule = constraints[i].rule
    /\ last.op = "validate" =>
           issues = ConstraintLoop(SelectSeq(constraints,
                                             LAMBDA c : MatchesGrammar(c.rule)), new_facts)
                        \o check_implicit_constraints(new_facts)

C19_Witness ==
    /\ last.op = "validate"
    /\ Len(constraints) = 2
    /\ ~MatchesGrammar(constraints[1].rule)
    /\ MatchesGrammar(constraints[2].rule)
    /\ Len(issues) = 2
    /\ \E i \in DOMAIN new_facts :
           new_facts[i].subject = "Alice" /\ new_facts[i].predicate = "age"

\* the seed and the stored facts that depend on it through one or more edges
Reachable(fs, seed) == {seed} \cup TransitiveDependents(fs, seed)

(***************************************************************************)
(* C20. Propagator and detectors touch validity only: a call of            *)
(* invalidate_fact or propagate_change leaves the set of stored facts, the *)
(* key order, every field of every fact other than validity_status, the    *)
(* subject index, the reverse-dependency index, entities and relationships *)
(* as they were, and changes the status of no fact outside the seed and    *)
(* its transitive dependents; a call of check_conflicts or validate leaves *)
(* all of the store as it was.                                             *)
(***************************************************************************)
C20_ValidityOnly ==
    [][/\ last'.op \in {"invalidate_fact", "propagate_change"} =>
              /\ DOMAIN facts' = DOMAIN facts
              /\ \A f \in DOMAIN facts :
                     /\ facts'[f] = [facts[f] EXCEPT
                                         !.validity_status = facts'[f].validity_status]
                     /\ f \notin Reachable(facts, last'.arg) =>
                            facts'[f].validity_status = facts[f].validity_status
              /\ UNCHANGED <<fact_keys, fact_index, dependent_index, graph_vars>>
       /\ last'.op \in {"check_conflicts", "validate"} =>
              UNCHANGED <<store, graph_vars>>]_vars

C20_Witness ==
    /\ last.op = "propagate_change" /\ last.arg = 1
    /\ DOMAIN facts = {1, 2, 3}
    /\ facts[2].dependencies = <<1>> /\ facts[3].dependencies = <<>>
    /\ facts[2].validity_status = DIRTY
    /\ facts[3].validity_status = VALID
    /\ entities # <<>> /\ relationships # <<>>

\* the stored fact ids of a subject, in insertion order
StoredWithSubject(subject) ==
    SelectSeq(fact_keys, LAMBDA fid : facts[fid].subject = subject)

StoreIsSnapshot ==
    /\ entities = snapshot.entities /\ relationships = snapshot.relationships
    /\ facts = snapshot.facts /\ fact_keys = snapshot.fact_keys
    /\ fact_index = snapshot.fact_index
    /\ dependent_index = snapshot.dependent_index

(***************************************************************************)
(* C22. Snapshot isolation: no operation other than create_snapshot, which *)
(* hands out a new snapshot, changes the snapshot the caller holds:        *)
(* adding or removing a fact, changing a fact's status or object, whether  *)
(* after create_snapshot or after restore_snapshot, leaves it as it was;   *)
(* and every restore_snapshot of it leaves the store with the snapshot's   *)
(* maps, so a second restore yields the state of the first.                *)
(***************************************************************************)
C22_SnapshotIsolation ==
    /\ [][last'.op # "create_snapshot" => snapshot' = snapshot]_vars
    /\ [](last.op = "restore_snapshot" => StoreIsSnapshot)

C22_Witness ==
    /\ last.op = "restore_snapshot"
    /\ next_id = 3
    /\ DOMAIN snapshot.facts = {1}
    /\ snapshot.facts[1].object = "25"
    /\ snapshot.facts[1].validity_status = VALID
    /\ facts = snapshot.facts

\* a fix that may be applied without review
Eligible(s) == s.auto_applicable /\ s.confidence >= AutoConfidence

\* a ranks before b: greater confidence, or equal confidence and smaller impact
RanksBefore(a, b) ==
    \/ a.confidence > b.confidence
    \/ a.confidence = b.confidence /\ a.impact_score < b.impact_score

\* the eligible suggestions for the i-th issue of the call
Candidates(i) == {s \in Range(generate_fixes(fixer.issues[i])) : Eligible(s)}

\* the positions in the call's issue list of the issues that have one
WithCandidates ==
    SelectSeq([i \in DOMAIN fixer.issues |-> i], LAMBDA i : Candidates(i) # {})

(***************************************************************************)
(* C23. Auto-apply eligibility: get_auto_fixes returns one fix for each    *)
(* issue of its list that has an eligible suggestion (auto_applicable set  *)
(* and confidence >= 0.7) and none for any other issue, in the order of    *)
(* the list; the fix for an issue is an eligible suggestion of that issue  *)
(* before which no eligible suggestion ranks, by descending confidence and *)
(* then ascending impact score.                                            *)
(***************************************************************************)
C23_AutoFixes ==
    fixer.calls > 0 =>
        /\ Len(fixer.auto_fixes) = Len(WithCandidates)
        /\ \A k \in DOMAIN fixer.auto_fixes :
               /\ Eligible(fixer.auto_fixes[k])
               /\ fixer.auto_fixes[k] \in Candidates(WithCandidates[k])
               /\ \A s \in Candidates(WithCandidates[k]) :
                      ~RanksBefore(s, fixer.auto_fixes[k])

C23_Witness ==
    /\ fixer.calls > 0
    /\ Len(fixer.issues) = 2
    /\ fixer.issues[1].type = "causal"
    /\ fixer.issues[2].type = "relational"
    /\ Len(fixer.auto_fixes) = 1
    /\ fixer.auto_fixes[1].confidence = AutoConfidence

\* the chain 1 <- 2 <- 3 after remove_fact(2): 3 still names 2
BrokenChain ==
    /\ DOMAIN facts = {1, 3}
    /\ facts[1].dependencies = <<>> /\ facts[3].dependencies = <<2>>

(***************************************************************************)
(* C24. Order of removal and invalidation in the chain 1 <- 2 <- 3 (2      *)
(* depends on 1, 3 on 2): invalidate_fact(1) called after remove_fact(2)   *)
(* returns the id 1 alone and leaves the status of 3 as it was;            *)
(* invalidate_fact(1) on the whole chain makes 3 invalid, and a            *)
(* remove_fact(2) that follows leaves 3 invalid.                           *)
(***************************************************************************)
C24_RemovalOrder ==
    [][/\ (BrokenChain /\ last'.op = "invalidate_fact" /\ last'.arg = 1) =>
              /\ last'.ret = {1}
              /\ facts'[3].validity_status = facts[3].validity_status
       /\ (IsChain /\ last'.op = "invalidate_fact" /\ last'.arg = 1) =>
              facts'[3].validity_status = INVALID
       /\ (IsChain /\ last.op = "invalidate_fact" /\ last.arg = 1
             /\ last'.op = "remove_fact" /\ last'.arg = 2) =>
              /\ facts[3].validity_status = INVALID
              /\ facts'[3].validity_status = INVALID]_vars

C24_Witness ==
    /\ BrokenChain
    /\ last.op = "invalidate_fact" /\ last.arg = 1 /\ last.ret = {1}
    /\ facts[1].validity_status = INVALID
    /\ facts[3].validity_status = VALID

EntityIdsOf(es) == {es[i].id : i \in DOMAIN es}

\* one entry per entity id
OneEntryPerId == \A i, j \in DOMAIN entities : entities[i].id = entities[j].id => i = j

(***************************************************************************)
(* C26 as stated.  Entities are never deleted except by clear: every       *)
(* operation other than clear leaves every stored entity stored, and the   *)
(* store has one entry per entity id.                                      *)
(***************************************************************************)
C26_OnlyClearDeletes ==
    /\ []OneEntryPerId
    /\ [][last'.op # "clear" => EntityIdsOf(entities) \subseteq EntityIdsOf(entities')]_vars

(***************************************************************************)
(* C26 amended.  Entities are deleted by clear and by restore_snapshot     *)
(* only: every other operation leaves every stored entity stored,          *)
(* restore_snapshot leaves exactly the entities of the snapshot stored,    *)
(* and the store has one entry per entity id.                              *)
(***************************************************************************)
C26_ClearOrRestoreDeletes ==
    /\ []OneEntryPerId
    /\ [][/\ last'.op \notin {"clear", "restore_snapshot"} =>
                 EntityIdsOf(entities) \subseteq EntityIdsOf(entities')
          /\ last'.op = "restore_snapshot" => entities' = snapshot.entities]_vars

C26_Witness ==
    /\ last.op = "add_entity"
    /\ snapshot.taken /\ snapshot.entities = <<[id |-> 1, name |-> "Alice"]>>
    /\ entities = <<[id |-> 1, name |-> "Bob"]>>
    /\ DOMAIN facts = {1}

(***************************************************************************)
(* C27. Last traversal wins on status: propagate_change on a stored seed   *)
(* leaves every transitive dependent of the seed dirty whatever status it  *)
(* had, an invalid one included, and invalidate_fact on a stored seed      *)
(* leaves the seed and every transitive dependent invalid whatever status  *)
(* it had, a dirty one included; so a fact reachable from the seeds of two *)
(* calls has the status the later call wrote.                              *)
(***************************************************************************)
C27_LastTraversalWins ==
    [][/\ (last'.op = "propagate_change" /\ Stored(last'.arg)) =>
              \A d \in TransitiveDependents(facts, last'.arg) :
                  facts'[d].validity_status = DIRTY
       /\ (last'.op = "invalidate_fact" /\ Stored(last'.arg)) =>
              \A d \in Reachable(facts, last'.arg) :
                  facts'[d].validity_status = INVALID
       /\ (last.op = "invalidate_fact" /\ last'.op = "propagate_change"
             /\ Stored(last.arg) /\ Stored(last'.arg)) =>
              \A d \in Reachable(facts, last.arg) \cap TransitiveDependents(facts, last'.arg) :
                  facts[d].validity_status = INVALID /\ facts'[d].validity_status = DIRTY]_vars

C27_Witness ==
    /\ IsChain
    /\ last.op = "propagate_change" /\ last.arg = 2
    /\ facts[1].validity_status = INVALID
    /\ facts[2].validity_status = INVALID
    /\ facts[3].validity_status = DIRTY

(***************************************************************************)
(* C28. Conflict detection ignores validity: after check_conflicts every   *)
(* stored fact with the subject and predicate of a new fact and another    *)
(* object is named by exactly one issue against that new fact, whether the *)
(* stored fact is valid, dirty or invalid; and no issue names a fact that  *)
(* is not in the store, so a removed fact yields none.                     *)
(***************************************************************************)
IssuesNaming(existing_id, new_id) ==
    {k \in DOMAIN issues : issues[k].conflicting_facts = <<existing_id, new_id>>}

C28_ConflictsIgnoreValidity ==
    last.op = "check_conflicts" =>
        /\ \A e \in DOMAIN facts : \A i \in DOMAIN new_facts :
               (/\ facts[e].validity_status \in {VALID, DIRTY, INVALID}
                /\ facts[e].subject = new_facts[i].subject
                /\ facts[e].predicate = new_facts[i].predicate
                /\ facts[e].object # new_facts[i].object)
               => Cardinality(IssuesNaming(e, new_facts[i].id)) = 1
        /\ \A k \in DOMAIN issues : Stored(issues[k].conflicting_facts[1])

\* a dirty fact and an invalid fact each yield an issue; a removed fact none
C28_Witness ==
    /\ last.op = "check_conflicts"
    /\ Len(new_facts) = 1
    /\ \E e \in DOMAIN facts :
           /\ facts[e].validity_status = INVALID
           /\ IssuesNaming(e, new_facts[1].id) # {}
    /\ \E e \in DOMAIN facts :
           /\ facts[e].validity_status = DIRTY
           /\ IssuesNaming(e, new_facts[1].id) # {}
    /\ \E r \in FactIds : r < next_id /\ ~Stored(r)

(***************************************************************************)
(* C29. Constraint registry lifecycle: in every state reached through      *)
(* add_constraint, remove_constraint and clear the compiled-rule table has *)
(* exactly the keys str(id) of the registered ids, each holding the rule   *)
(* of the constraint registered under that id, and no id is registered     *)
(* twice; after validate every registered well-formed constraint that the  *)
(* batch violates has its issue, and every constraint issue is that of a   *)
(* constraint registered at the time, so a removed one yields none;        *)
(* remove_constraint of an unregistered id returns false and changes       *)
(* neither the registry nor the table, and of a registered id returns true *)
(* and takes that id, and only that id, out of both.                       *)
(***************************************************************************)
RegisteredIds(registered) == {registered[i].id : i \in DOMAIN registered}

RegistryInStep ==
    /\ DOMAIN rules = {str(constraint_id) : constraint_id \in RegisteredIds(constraints)}
    /\ \A i, j \in DOMAIN constraints : constraints[i].id = constraints[j].id => i = j
    /\ \A i \in DOMAIN constraints :
           /\ rules[str(constraints[i].id)].rule = constraints[i].rule
           /\ rules[str(constraints[i].id)].type = constraints[i].type
           /\ rules[str(constraints[i].id)].is_hard = constraints[i].is_hard

ConstraintIssuesAt == {k \in DOMAIN issues : issues[k].confidence = ConstraintConfidence}

IssueOf(k, constraint) ==
    /\ issues[k].type = constraint.type
    /\ issues[k].level = (IF constraint.is_hard THEN "inconsistent" ELSE "warning")

EvaluatedWhileRegistered ==
    last.op = "validate" =>
        /\ \A i \in DOMAIN constraints :
               (MatchesGrammar(constraints[i].rule) /\ Violates(new_facts, constraints[i].rule))
               => \E k \in ConstraintIssuesAt : IssueOf(k, constraints[i])
        /\ \A k \in ConstraintIssuesAt :
               \E i \in DOMAIN constraints : IssueOf(k, constraints[i])
        /\ Cardinality(ConstraintIssuesAt) <= Len(constraints)

RemoveStep ==
    last'.op = "remove_constraint" =>
        IF last'.arg \in RegisteredIds(constraints)
        THEN /\ last'.ret = {TRUE}
             /\ RegisteredIds(constraints') = RegisteredIds(constraints) \ {last'.arg}
             /\ DOMAIN rules' = DOMAIN rules \ {str(last'.arg)}
             /\ \A key \in DOMAIN rules' : rules'[key] = rules[key]
        ELSE /\ last'.ret = {FALSE}
             /\ constraints' = constraints
             /\ rules' = rules

C29_RegistryLifecycle ==
    /\ []RegistryInStep
    /\ []EvaluatedWhileRegistered
    /\ [][RemoveStep]_vars

\* a validate after a removal: the constraint left registered has its issue,
\* the removed one has none
C29_Witness ==
    /\ last.op = "validate"
    /\ Len(constraints) = 1
    /\ constraints[1].id = 2
    /\ DOMAIN rules = {str(2)}
    /\ Len(new_facts) = 1
    /\ issues # <<>>
    /\ \A k \in DOMAIN issues : issues[k].type = "behavioral"

(***************************************************************************)
(* C30. Simulation undo: process_action for a character the store knows    *)
(* returns a result, and when the result is success the history has grown  *)
(* by one entry holding the next step and a snapshot of the store and      *)
(* current_step is that step, so that after one initialize_session and n   *)
(* successful actions the history holds n+1 entries and current_step = n   *)
(* is the step of the last entry; undo with more than one entry removes    *)
(* the last entry, restores the store to the snapshot of the new last      *)
(* entry and sets current_step to its step; undo with at most one entry    *)
(* reports failure and changes neither history, current_step nor the       *)
(* store; process_action for an unknown character changes neither history  *)
(* nor current_step.                                                       *)
(***************************************************************************)
Known(character) == find_entity_by_name(character) # <<>>

\* the history of one session: the initial snapshot, then actions
OneSession == {i \in DOMAIN history : history[i].action = "INIT"} = {1}

StepsCounted ==
    OneSession =>
        /\ \A i \in DOMAIN history : history[i].step = i - 1
        /\ current_step = Len(history) - 1

ActionStep ==
    last'.op = "process_action" =>
        IF Known(last'.arg)
        THEN /\ last'.ret \in {{"success"}, {"impossible"}}
             /\ last'.ret = {"success"} =>
                    /\ Len(history') = Len(history) + 1
                    /\ SubSeq(history', 1, Len(history)) = history
                    /\ history'[Len(history')].step = current_step + 1
                    /\ history'[Len(history')].snapshot = create_snapshot
                    /\ current_step' = current_step + 1
             /\ last'.ret = {"impossible"} => UNCHANGED sim_vars
        ELSE UNCHANGED sim_vars

UndoStep ==
    last'.op = "undo" =>
        IF Len(history) <= 1
        THEN /\ last'.ret = {"failure"}
             /\ UNCHANGED <<sim_vars, store, graph_vars>>
        ELSE /\ last'.ret = {"success"}
             /\ history' = SubSeq(history, 1, Len(history) - 1)
             /\ LET s == history[Len(history) - 1].snapshot
                IN  /\ entities' = s.entities
                    /\ relationships' = s.relationships
                    /\ facts' = s.facts
                    /\ fact_keys' = s.fact_keys
                    /\ fact_index' = s.fact_index
                    /\ dependent_index' = s.dependent_index
             /\ current_step' = history[Len(history) - 1].step

C30_SimulationUndo ==
    /\ []StepsCounted
    /\ [][ActionStep]_vars
    /\ [][UndoStep]_vars

====
